---------------------------- MODULE Spec2Model ----------------------------
(***************************************************************************)
(* TunableGroups (mlos_bench/tunables/tunable_groups.py): a registry of    *)
(* covariant tunable groups with a tunable-name -> group index.            *)
(*                                                                         *)
(* Group objects live in an arena (heap) and are referenced by id from the *)
(* _tunable_groups and _index dictionaries of every TunableGroups object   *)
(* (view), so that reference sharing (merge, subgroup) and deep copies     *)
(* (copy) are distinguishable.  Python dictionaries are sequences of       *)
(* <<key, value>> pairs in insertion order.                                *)
(***************************************************************************)
EXTENDS Integers, Sequences, FiniteSets, TLC

MaxViews == 2        \* TunableGroups objects alive at once (Spec)
MaxStructViews == 3  \* TunableGroups objects alive at once (SpecStruct)
MaxObjs == 4         \* CovariantTunableGroup objects alive at once
MaxCfgGroups == 2    \* groups in one config dict given to the constructor
MaxNames == 3        \* length of a group_names argument (SpecStruct)
MaxSel == 1          \* length of a group_names argument (Spec)
MaxAssign == 1       \* entries of a param_values mapping (Spec)
MaxMapping == 2      \* entries of a param_values mapping (SpecAssign)

VARIABLES heap, views, call, opt

vars == <<heap, views, call, opt>>

--------------------------------------------------------------------------
(* Dictionaries: insertion-ordered sequences of <<key, value>> pairs.     *)

Keys(d) == {d[i][1] : i \in 1..Len(d)}

HasKey(d, k) == \E i \in 1..Len(d) : d[i][1] = k

Get(d, k) == d[CHOOSE i \in 1..Len(d) : d[i][1] = k][2]

DictValues(d) == {d[i][2] : i \in 1..Len(d)}

\* d[k] = v for a key that is not in d yet: appended at the end
Put(d, k, v) == Append(d, <<k, v>>)

--------------------------------------------------------------------------
(* The configs the groups are built from.  One entry per covariant group  *)
(* config: name, cost, and params in the order of the config dict.        *)

GroupNames == {"A", "B", "C"}

TunableNames == {"x", "y"}

\* values a caller may try to assign; 2 is outside every declared range
Values == {0, 1, 2}

GroupConfigs ==
  << [name |-> "A", cost |-> 2,
      params |-> << [name |-> "x", range |-> <<0, 1>>, default |-> 0] >>],
     [name |-> "A", cost |-> 2,
      params |-> << [name |-> "x", range |-> <<0, 1>>, default |-> 1] >>],
     [name |-> "B", cost |-> 2,
      params |-> << [name |-> "x", range |-> <<0, 1>>, default |-> 0],
                    [name |-> "y", range |-> <<0, 1>>, default |-> 0] >>],
     [name |-> "C", cost |-> 1,
      params |-> << [name |-> "y", range |-> <<0, 1>>, default |-> 1] >>] >>

ConfigIds == 1..Len(GroupConfigs)

\* config dicts over the group configs ids: pairwise different names (dict keys)
ConfigsOf(ids) ==
  {c \in UNION {[1..n -> ids] : n \in 0..MaxCfgGroups} :
     \A i, j \in 1..Len(c) :
        i # j => GroupConfigs[c[i]].name # GroupConfigs[c[j]].name}

Configs == ConfigsOf(ConfigIds)

\* config dicts that give every group name one definition only, so that
\* same-named groups of different objects always agree on domains and defaults
CompatibleConfigs ==
  ConfigsOf({d \in ConfigIds :
               \A e \in ConfigIds : GroupConfigs[e].name = GroupConfigs[d].name => d <= e})

--------------------------------------------------------------------------
(* CovariantTunableGroup objects.  def = 0 marks a free arena slot.       *)

ObjIds == 1..MaxObjs

ViewIds == 1..(IF MaxViews > MaxStructViews THEN MaxViews ELSE MaxStructViews)

NoObj == [def |-> 0, values |-> <<>>, is_updated |-> FALSE]

GroupDef(h, g) == GroupConfigs[h[g].def]

GroupName(h, g) == GroupDef(h, g).name

Params(h, g) == GroupDef(h, g).params

\* position of tunable t in the group's params (0 if absent)
ParamPos(h, g, t) ==
  IF \E i \in 1..Len(Params(h, g)) : Params(h, g)[i].name = t
  THEN CHOOSE i \in 1..Len(Params(h, g)) : Params(h, g)[i].name = t
  ELSE 0

GroupTunableNames(h, g) == {Params(h, g)[i].name : i \in 1..Len(Params(h, g))}

\* CovariantTunableGroup(name, config): every tunable at its default, dirty
NewGroup(d) ==
  [def |-> d,
   values |-> [i \in 1..Len(GroupConfigs[d].params) |-> GroupConfigs[d].params[i].default],
   is_updated |-> TRUE]

\* CovariantTunableGroup.equals_defaults: names, domains and defaults
equals_defaults(h, g1, g2) ==
  /\ GroupName(h, g1) = GroupName(h, g2)
  /\ Params(h, g1) = Params(h, g2)

\* CovariantTunableGroup.__eq__: also current values and the dirty flag
GroupEq(h, g1, g2) ==
  /\ equals_defaults(h, g1, g2)
  /\ GroupDef(h, g1).cost = GroupDef(h, g2).cost
  /\ h[g1].values = h[g2].values
  /\ h[g1].is_updated = h[g2].is_updated

--------------------------------------------------------------------------
(* TunableGroups objects: the two dictionaries.                           *)

EmptyTG == [groups |-> <<>>, index |-> <<>>]

NoView == [alive |-> FALSE, groups |-> <<>>, index |-> <<>>]

MkView(tg) == [alive |-> TRUE, groups |-> tg.groups, index |-> tg.index]

TG(v) == [groups |-> views[v].groups, index |-> views[v].index]

Ok == [type |-> "ok", group |-> "", tunable |-> ""]

Err(type, group, tunable) == [type |-> type, group |-> group, tunable |-> tunable]

\* the loop of _add_group over group.get_tunables(), from position i on
RECURSIVE IndexTunables(_, _, _, _)
IndexTunables(tg, g, h, i) ==
  IF i > Len(Params(h, g)) THEN [res |-> Ok, tg |-> tg]
  ELSE LET t == Params(h, g)[i].name IN
       IF HasKey(tg.index, t)
       THEN [res |-> Err("ValueError", GroupName(h, g), t), tg |-> tg]
       ELSE IndexTunables([tg EXCEPT !.index = Put(@, t, g)], g, h, i + 1)

\* dict assignment d[k] = v: replaces the value of an existing key
Assoc(d, k, v) ==
  IF HasKey(d, k)
  THEN [i \in 1..Len(d) |-> IF d[i][1] = k THEN <<k, v>> ELSE d[i]]
  ELSE Append(d, <<k, v>>)

RECURSIVE IndexTunablesShadow(_, _, _, _)
IndexTunablesShadow(tg, g, h, i) ==
  IF i > Len(Params(h, g)) THEN [res |-> Ok, tg |-> tg]
  ELSE IndexTunablesShadow([tg EXCEPT !.index = Assoc(@, Params(h, g)[i].name, g)],
                           g, h, i + 1)

\* _add_group without the duplicate-tunable check: the new group's tunables
\* take over the index entries
add_group_shadow(tg, g, h) ==
  IF HasKey(tg.groups, GroupName(h, g))
  THEN [res |-> Err("AssertionError", GroupName(h, g), ""), tg |-> tg]
  ELSE IndexTunablesShadow([tg EXCEPT !.groups = Put(@, GroupName(h, g), g)], g, h, 1)

\* TunableGroups._add_group
_add_group(tg, g, h) ==
  IF HasKey(tg.groups, GroupName(h, g))
  THEN [res |-> Err("AssertionError", GroupName(h, g), ""), tg |-> tg]
  ELSE IndexTunables([tg EXCEPT !.groups = Put(@, GroupName(h, g), g)], g, h, 1)

\* the loop of merge over tunables._tunable_groups.values(), from position i on
RECURSIVE MergeLoop(_, _, _, _)
MergeLoop(tg, other, h, i) ==
  IF i > Len(other) THEN [res |-> Ok, tg |-> tg]
  ELSE LET g == other[i][2] IN
       IF ~HasKey(tg.groups, GroupName(h, g))
       THEN LET r == _add_group(tg, g, h) IN
            IF r.res = Ok THEN MergeLoop(r.tg, other, h, i + 1) ELSE r
       ELSE IF ~equals_defaults(h, Get(tg.groups, GroupName(h, g)), g)
            THEN [res |-> Err("ValueError", GroupName(h, g), ""), tg |-> tg]
            ELSE MergeLoop(tg, other, h, i + 1)

\* merge with dict.update semantics: a same-named compatible group of the
\* other collection replaces the receiver's group
RECURSIVE MergeLoopUpdate(_, _, _, _)
MergeLoopUpdate(tg, other, h, i) ==
  IF i > Len(other) THEN [res |-> Ok, tg |-> tg]
  ELSE LET g == other[i][2] IN
       IF ~HasKey(tg.groups, GroupName(h, g))
       THEN LET r == _add_group(tg, g, h) IN
            IF r.res = Ok THEN MergeLoopUpdate(r.tg, other, h, i + 1) ELSE r
       ELSE IF ~equals_defaults(h, Get(tg.groups, GroupName(h, g)), g)
            THEN [res |-> Err("ValueError", GroupName(h, g), ""), tg |-> tg]
            ELSE MergeLoopUpdate(
                   [groups |-> Assoc(tg.groups, GroupName(h, g), g),
                    index |-> [k \in 1..Len(tg.index) |->
                                 IF tg.index[k][1] \in GroupTunableNames(h, g)
                                 THEN <<tg.index[k][1], g>> ELSE tg.index[k]]],
                   other, h, i + 1)

merge_update(tg, other, h) == MergeLoopUpdate(tg, other.groups, h, 1)

\* merge without the compatibility check of same-named groups
RECURSIVE MergeLoopNoCheck(_, _, _, _)
MergeLoopNoCheck(tg, other, h, i) ==
  IF i > Len(other) THEN [res |-> Ok, tg |-> tg]
  ELSE LET g == other[i][2] IN
       IF ~HasKey(tg.groups, GroupName(h, g))
       THEN LET r == _add_group(tg, g, h) IN
            IF r.res = Ok THEN MergeLoopNoCheck(r.tg, other, h, i + 1) ELSE r
       ELSE MergeLoopNoCheck(tg, other, h, i + 1)

merge_nocheck(tg, other, h) == MergeLoopNoCheck(tg, other.groups, h, 1)

\* merge that adds every group of the other collection, known name or not
RECURSIVE MergeLoopAlwaysAdd(_, _, _, _)
MergeLoopAlwaysAdd(tg, other, h, i) ==
  IF i > Len(other) THEN [res |-> Ok, tg |-> tg]
  ELSE LET r == _add_group(tg, other[i][2], h) IN
       IF r.res = Ok THEN MergeLoopAlwaysAdd(r.tg, other, h, i + 1) ELSE r

merge_always_add(tg, other, h) == MergeLoopAlwaysAdd(tg, other.groups, h, 1)

\* merge that is rolled back when it fails: the receiver is as before
merge_rollback(tg, other, h) ==
  LET r == MergeLoop(tg, other.groups, h, 1) IN
  IF r.res = Ok THEN r ELSE [res |-> r.res, tg |-> tg]

\* TunableGroups.merge: the outcome and the receiver's dictionaries
merge(tg, other, h) == MergeLoop(tg, other.groups, h, 1)

--------------------------------------------------------------------------
(* Allocation of arena slots and of TunableGroups objects.                *)

FreeObjs(h) == {g \in ObjIds : h[g].def = 0}

\* the free slots among the first cap TunableGroups slots
FreeViews(cap) == {v \in 1..cap : ~views[v].alive}

Alive == {v \in ViewIds : views[v].alive}

Min(S) == CHOOSE x \in S : \A y \in S : x <= y

\* the n lowest free slots of h, in increasing order
RECURSIVE Alloc(_, _)
Alloc(free, n) ==
  IF n = 0 THEN <<>> ELSE <<Min(free)>> \o Alloc(free \ {Min(free)}, n - 1)

\* the loop of __init__ over config.items(), from position i on
RECURSIVE InitLoop(_, _, _, _)
InitLoop(tg, gs, h, i) ==
  IF i > Len(gs) THEN [res |-> Ok, tg |-> tg]
  ELSE LET r == _add_group(tg, gs[i], h) IN
       IF r.res = Ok THEN InitLoop(r.tg, gs, h, i + 1) ELSE r

\* the last call: the method and how it ended ("ok" or the exception type)
Call(op, res) == [op |-> op, type |-> res.type]

NoCall == [op |-> "none", type |-> "ok"]

\* no optimizer has been constructed
NoOpt == [alive |-> FALSE]

Init ==
  /\ heap = [g \in ObjIds |-> NoObj]
  /\ views = [v \in ViewIds |-> NoView]
  /\ call = NoCall
  /\ opt = NoOpt

\* the arena with the CovariantTunableGroup objects of cfg in the slots gs
NewGroups(h, cfg, gs) ==
  [g \in ObjIds |->
     IF \E i \in 1..Len(gs) : gs[i] = g
     THEN NewGroup(cfg[CHOOSE i \in 1..Len(gs) : gs[i] = g])
     ELSE h[g]]

\* TunableGroups(config)
Construct(cfg, cap) ==
  /\ FreeViews(cap) # {}
  /\ Cardinality(FreeObjs(heap)) >= Len(cfg)
  /\ \E h1 \in {NewGroups(heap, cfg, Alloc(FreeObjs(heap), Len(cfg)))} :
     \E r \in {InitLoop(EmptyTG, Alloc(FreeObjs(heap), Len(cfg)), h1, 1)},
        v \in {Min(FreeViews(cap))} :
        IF r.res = Ok
        THEN /\ heap' = h1
             /\ views' = [views EXCEPT ![v] = MkView(r.tg)]
             /\ call' = Call("init", Ok)
        ELSE /\ UNCHANGED <<heap, views>>
             /\ call' = Call("init", r.res)
  /\ UNCHANGED opt

\* self.merge(tunables)
Merge(v, o) ==
  /\ v \in Alive /\ o \in Alive
  /\ \E r \in {merge(TG(v), TG(o), heap)} :
       /\ views' = [views EXCEPT ![v] = MkView(r.tg)]
       /\ call' = Call("merge", r.res)
  /\ UNCHANGED heap
  /\ UNCHANGED opt

\* the loop of subgroup over group_names, from position i on
RECURSIVE SubgroupLoop(_, _, _, _, _)
SubgroupLoop(new, src, names, h, i) ==
  IF i > Len(names) THEN [res |-> Ok, tg |-> new]
  ELSE IF ~HasKey(src.groups, names[i])
       THEN [res |-> Err("KeyError", names[i], ""), tg |-> new]
       ELSE LET r == _add_group(new, Get(src.groups, names[i]), h) IN
            IF r.res = Ok THEN SubgroupLoop(r.tg, src, names, h, i + 1) ELSE r

\* subgroup that skips the names the source does not hold
RECURSIVE SubgroupLoopSkip(_, _, _, _, _)
SubgroupLoopSkip(new, src, names, h, i) ==
  IF i > Len(names) THEN [res |-> Ok, tg |-> new]
  ELSE IF ~HasKey(src.groups, names[i])
       THEN SubgroupLoopSkip(new, src, names, h, i + 1)
       ELSE LET r == _add_group(new, Get(src.groups, names[i]), h) IN
            IF r.res = Ok THEN SubgroupLoopSkip(r.tg, src, names, h, i + 1) ELSE r

subgroup_skip(tg, names, h) == SubgroupLoopSkip(EmptyTG, tg, names, h, 1)

\* TunableGroups.subgroup: the outcome and the new object's dictionaries
subgroup(tg, names, h) == SubgroupLoop(EmptyTG, tg, names, h, 1)

NameSeqs(n) == UNION {[1..k -> GroupNames] : k \in 0..n}

\* the group_names arguments of SpecStruct and of Spec
LongNames == NameSeqs(MaxNames)

ShortNames == NameSeqs(MaxSel)

\* self.subgroup(group_names)
Subgroup(v, names, cap) ==
  /\ v \in Alive
  /\ FreeViews(cap) # {}
  /\ \E r \in {subgroup(TG(v), names, heap)}, s \in {Min(FreeViews(cap))} :
        IF r.res = Ok
        THEN /\ views' = [views EXCEPT ![s] = MkView(r.tg)]
             /\ call' = Call("subgroup", Ok)
        ELSE /\ UNCHANGED views
             /\ call' = Call("subgroup", r.res)
  /\ UNCHANGED heap
  /\ UNCHANGED opt

\* the group objects reachable from a TunableGroups object
Reach(tg) == DictValues(tg.groups) \cup DictValues(tg.index)

\* a shallow copy: new dictionaries, the same group objects
shallowcopy(tg, memo) == tg

\* copy.deepcopy of the dictionaries: every reachable group object is cloned
\* once (memo) and every reference is redirected to its clone
deepcopy(tg, memo) ==
  [groups |-> [i \in 1..Len(tg.groups) |-> <<tg.groups[i][1], memo[tg.groups[i][2]]>>],
   index  |-> [i \in 1..Len(tg.index) |-> <<tg.index[i][1], memo[tg.index[i][2]]>>]]

\* the clone of every group object of S, allocated in the free slots
Memo(S, free) ==
  CHOOSE m \in [S -> free] :
    /\ \A a, b \in S : a < b => m[a] < m[b]
    /\ \A f \in free : (\E a \in S : m[a] = f) \/ (\A a \in S : m[a] < f)

\* self.copy()
Copy(v, cap) ==
  /\ v \in Alive
  /\ FreeViews(cap) # {}
  /\ Cardinality(FreeObjs(heap)) >= Cardinality(Reach(TG(v)))
  /\ \E memo \in {Memo(Reach(TG(v)), FreeObjs(heap))}, c \in {Min(FreeViews(cap))} :
        /\ heap' = [g \in ObjIds |->
                      IF \E a \in Reach(TG(v)) : memo[a] = g
                      THEN heap[CHOOSE a \in Reach(TG(v)) : memo[a] = g]
                      ELSE heap[g]]
        /\ views' = [views EXCEPT ![c] = MkView(deepcopy(TG(v), memo))]
        /\ call' = Call("copy", Ok)
  /\ UNCHANGED opt

--------------------------------------------------------------------------
(* Values and dirty flags.                                                *)

InRange(p, value) == p.range[1] <= value /\ value <= p.range[2]

\* CovariantTunableGroup.__getitem__
group_getitem(h, g, name) == h[g].values[ParamPos(h, g, name)]

\* CovariantTunableGroup.__setitem__: validates, assigns, marks the group
group_setitem(h, g, name, value) ==
  IF ParamPos(h, g, name) = 0
  THEN [res |-> Err("KeyError", GroupName(h, g), name), heap |-> h]
  ELSE IF ~InRange(Params(h, g)[ParamPos(h, g, name)], value)
       THEN [res |-> Err("ValueError", GroupName(h, g), name), heap |-> h]
       ELSE [res |-> Ok,
             heap |-> [h EXCEPT ![g].values[ParamPos(h, g, name)] = value,
                                ![g].is_updated = TRUE]]

\* CovariantTunableGroup.restore_defaults
group_restore_defaults(h, g) ==
  [h EXCEPT ![g].values = [i \in 1..Len(Params(h, g)) |-> Params(h, g)[i].default],
            ![g].is_updated = (Len(Params(h, g)) > 0) \/ @]

\* CovariantTunableGroup.reset_is_updated
reset_is_updated(h, g) == [h EXCEPT ![g].is_updated = FALSE]

\* CovariantTunableGroup.is_defaults
group_is_defaults(h, g) ==
  \A i \in 1..Len(Params(h, g)) : h[g].values[i] = Params(h, g)[i].default

\* TunableGroups.__contains__
contains(tg, name) == HasKey(tg.index, name)

\* TunableGroups.__getitem__ (for a name of the index)
getitem(tg, h, name) == group_getitem(h, Get(tg.index, name), name)

\* item assignment that writes the tunable directly, bypassing the group's
\* item-assignment path (the dirty flag is not touched)
setitem_direct(tg, h, name, value) ==
  IF ~HasKey(tg.index, name)
  THEN [res |-> Err("KeyError", "", name), heap |-> h]
  ELSE IF ~InRange(Params(h, Get(tg.index, name))[ParamPos(h, Get(tg.index, name), name)], value)
       THEN [res |-> Err("ValueError", GroupName(h, Get(tg.index, name)), name), heap |-> h]
       ELSE [res |-> Ok,
             heap |-> [h EXCEPT ![Get(tg.index, name)].values[ParamPos(h, Get(tg.index, name), name)] = value]]

\* item assignment with change detection: the dirty flag is set only when
\* the new value differs from the current one
setitem_on_change(tg, h, name, value) ==
  IF HasKey(tg.index, name) /\ getitem(tg, h, name) = value
  THEN [res |-> Ok, heap |-> h]
  ELSE IF ~HasKey(tg.index, name)
       THEN [res |-> Err("KeyError", "", name), heap |-> h]
       ELSE group_setitem(h, Get(tg.index, name), name, value)

\* item assignment that clamps a value above the range to the upper bound
setitem_clamp(tg, h, name, value) ==
  IF ~HasKey(tg.index, name)
  THEN [res |-> Err("KeyError", "", name), heap |-> h]
  ELSE LET g == Get(tg.index, name)
           p == Params(h, g)[ParamPos(h, g, name)]
       IN  group_setitem(h, g, name, IF value > p.range[2] THEN p.range[2] ELSE value)

\* TunableGroups.__setitem__: the outcome and the arena
setitem(tg, h, name, value) ==
  IF ~HasKey(tg.index, name)
  THEN [res |-> Err("KeyError", "", name), heap |-> h]
  ELSE group_setitem(h, Get(tg.index, name), name, value)

\* TunableGroups.get_covariant_group_names
get_covariant_group_names(tg) == [i \in 1..Len(tg.groups) |-> tg.groups[i][1]]

\* a group_names argument: None, or a sequence of names
None == [given |-> FALSE, names |-> <<>>]

Given(names) == [given |-> TRUE, names |-> names]

NameArgs == {None} \cup {Given(names) : names \in ShortNames}

\* group_names or self.get_covariant_group_names()
OrAll(tg, arg) ==
  IF arg.given /\ arg.names # <<>> THEN arg.names ELSE get_covariant_group_names(tg)

\* the loop of restore_defaults over the names, from position i on
RECURSIVE RestoreLoop(_, _, _, _)
RestoreLoop(tg, h, names, i) ==
  IF i > Len(names) THEN [res |-> Ok, heap |-> h]
  ELSE IF ~HasKey(tg.groups, names[i])
       THEN [res |-> Err("KeyError", names[i], ""), heap |-> h]
       ELSE RestoreLoop(tg, group_restore_defaults(h, Get(tg.groups, names[i])), names, i + 1)

\* restore_defaults that also clears the dirty flag of the groups it restores
RECURSIVE RestoreLoopClear(_, _, _, _)
RestoreLoopClear(tg, h, names, i) ==
  IF i > Len(names) THEN [res |-> Ok, heap |-> h]
  ELSE IF ~HasKey(tg.groups, names[i])
       THEN [res |-> Err("KeyError", names[i], ""), heap |-> h]
       ELSE RestoreLoopClear(tg,
              reset_is_updated(group_restore_defaults(h, Get(tg.groups, names[i])),
                               Get(tg.groups, names[i])),
              names, i + 1)

restore_defaults_clear(tg, h, arg) == RestoreLoopClear(tg, h, OrAll(tg, arg), 1)

\* TunableGroups.restore_defaults
restore_defaults(tg, h, arg) == RestoreLoop(tg, h, OrAll(tg, arg), 1)

\* the loop of reset over the names, from position i on
RECURSIVE ResetLoop(_, _, _, _)
ResetLoop(tg, h, names, i) ==
  IF i > Len(names) THEN [res |-> Ok, heap |-> h]
  ELSE IF ~HasKey(tg.groups, names[i])
       THEN [res |-> Err("KeyError", names[i], ""), heap |-> h]
       ELSE ResetLoop(tg, reset_is_updated(h, Get(tg.groups, names[i])), names, i + 1)

\* TunableGroups.reset
\* reset that clears the dirty flag of every group object there is
reset_every_group(tg, h, arg) ==
  [res |-> Ok, heap |-> [g \in ObjIds |-> [h[g] EXCEPT !.is_updated = FALSE]]]

reset(tg, h, arg) == ResetLoop(tg, h, OrAll(tg, arg), 1)

\* the loop of assign over param_values.items(), from position i on
RECURSIVE AssignLoop(_, _, _, _)
AssignLoop(tg, h, kv, i) ==
  IF i > Len(kv) THEN [res |-> Ok, heap |-> h]
  ELSE LET r == setitem(tg, h, kv[i][1], kv[i][2]) IN
       IF r.res = Ok THEN AssignLoop(tg, r.heap, kv, i + 1) ELSE r

\* assign without the empty-mapping case: an empty mapping changes nothing
assign_items_only(tg, h, kv) == AssignLoop(tg, h, kv, 1)

\* assign that starts from the defaults: the tunables that the mapping does
\* not name are restored
assign_from_defaults(tg, h, kv) ==
  AssignLoop(tg, restore_defaults(tg, h, None).heap, kv, 1)

\* assign that is rolled back when an item fails: no value is changed
assign_atomic(tg, h, kv) ==
  LET r == AssignLoop(tg, h, kv, 1) IN
  IF kv = <<>> THEN restore_defaults(tg, h, None)
  ELSE IF r.res = Ok THEN r ELSE [res |-> r.res, heap |-> h]

\* TunableGroups.assign
assign(tg, h, kv) ==
  IF kv = <<>> THEN restore_defaults(tg, h, None) ELSE AssignLoop(tg, h, kv, 1)

\* TunableGroups.is_updated
is_updated(tg, h, arg) ==
  \E i \in 1..Len(OrAll(tg, arg)) : h[Get(tg.groups, OrAll(tg, arg)[i])].is_updated

\* CovariantTunableGroup.get_tunable_values_dict merged into the dictionary
\* into (dict.update), from the group's tunable at position i on
RECURSIVE UpdateFrom(_, _, _, _)
UpdateFrom(into, h, g, i) ==
  IF i > Len(Params(h, g)) THEN into
  ELSE UpdateFrom(Assoc(into, Params(h, g)[i].name, h[g].values[i]), h, g, i + 1)

\* the loop of get_param_values over group_names, from position i on
RECURSIVE ParamValuesLoop(_, _, _, _, _)
ParamValuesLoop(tg, h, names, into, i) ==
  IF i > Len(names) THEN [res |-> Ok, params |-> into]
  ELSE IF ~HasKey(tg.groups, names[i])
       THEN [res |-> Err("KeyError", names[i], ""), params |-> into]
       ELSE ParamValuesLoop(tg, h, names,
                            UpdateFrom(into, h, Get(tg.groups, names[i]), 1), i + 1)

\* TunableGroups.get_param_values (into_params omitted): only None selects
\* all groups
get_param_values(tg, h, arg) ==
  ParamValuesLoop(tg, h,
                  IF arg.given THEN arg.names ELSE get_covariant_group_names(tg),
                  <<>>, 1)

\* TunableGroups.is_defaults
is_defaults(tg, h) == \A g \in DictValues(tg.groups) : group_is_defaults(h, g)

\* equality that compares names, domains and defaults only
TGEqDefaults(tg1, tg2, h) ==
  /\ Keys(tg1.groups) = Keys(tg2.groups)
  /\ \A k \in Keys(tg1.groups) : equals_defaults(h, Get(tg1.groups, k), Get(tg2.groups, k))

\* TunableGroups.__eq__: the _tunable_groups dictionaries are equal
\* (same keys, equal groups; dict equality ignores insertion order)
TGEq(tg1, tg2, h) ==
  /\ Keys(tg1.groups) = Keys(tg2.groups)
  /\ \A k \in Keys(tg1.groups) : GroupEq(h, Get(tg1.groups, k), Get(tg2.groups, k))

\* the param_values mappings of at most n entries: pairwise different keys
MappingsOf(n) ==
  {kv \in UNION {[1..k -> TunableNames \X Values] : k \in 0..n} :
     \A i, j \in 1..Len(kv) : i # j => kv[i][1] # kv[j][1]}

\* the param_values arguments of Spec and of SpecAssign
ParamValues == MappingsOf(MaxAssign)

Mappings == MappingsOf(MaxMapping)

\* self[name] = value
SetItem(v, name, value) ==
  /\ v \in Alive
  /\ \E r \in {setitem(TG(v), heap, name, value)} :
       /\ heap' = r.heap
       /\ call' = Call("setitem", r.res)
  /\ UNCHANGED views
  /\ UNCHANGED opt

\* self.restore_defaults(group_names)
RestoreDefaults(v, arg) ==
  /\ v \in Alive
  /\ \E r \in {restore_defaults(TG(v), heap, arg)} :
       /\ heap' = r.heap
       /\ call' = Call("restore_defaults", r.res)
  /\ UNCHANGED views
  /\ UNCHANGED opt

\* self.reset(group_names)
Reset(v, arg) ==
  /\ v \in Alive
  /\ \E r \in {reset(TG(v), heap, arg)} :
       /\ heap' = r.heap
       /\ call' = Call("reset", r.res)
  /\ UNCHANGED views
  /\ UNCHANGED opt

\* self.assign(param_values)
Assign(v, kv) ==
  /\ v \in Alive
  /\ \E r \in {assign(TG(v), heap, kv)} :
       /\ heap' = r.heap
       /\ call' = Call("assign", r.res)
  /\ UNCHANGED views
  /\ UNCHANGED opt

\* self.get_param_values(group_names): reads only
GetParamValues(v, arg) ==
  /\ v \in Alive
  /\ call' = Call("get_param_values", get_param_values(TG(v), heap, arg).res)
  /\ UNCHANGED <<heap, views>>
  /\ UNCHANGED opt

\* Python's order of the group names and of the tunable names (str.__lt__)
NameOrder == <<"A", "B", "C", "x", "y">>

NameRank(n) == CHOOSE i \in 1..Len(NameOrder) : NameOrder[i] = n

\* the sort key of __repr__, (-g.cost, g.name): g1's key is below g2's
KeyBefore(h, g1, g2) ==
  \/ GroupDef(h, g1).cost > GroupDef(h, g2).cost
  \/ /\ GroupDef(h, g1).cost = GroupDef(h, g2).cost
     /\ NameRank(GroupName(h, g1)) < NameRank(GroupName(h, g2))

\* sorted(): g inserted into the sorted sequence gs, after the elements whose
\* key is not above its own (stable)
RECURSIVE InsertGroup(_, _, _)
InsertGroup(h, gs, g) ==
  IF gs = <<>> THEN <<g>>
  ELSE IF KeyBefore(h, g, gs[1]) THEN <<g>> \o gs
       ELSE <<gs[1]>> \o InsertGroup(h, Tail(gs), g)

RECURSIVE SortGroups(_, _)
SortGroups(h, gs) ==
  IF gs = <<>> THEN <<>>
  ELSE InsertGroup(h, SortGroups(h, SubSeq(gs, 1, Len(gs) - 1)), gs[Len(gs)])

\* sorted(group._tunables.values()): the positions of the group's tunables
\* in ascending order of the tunables (by name)
RECURSIVE InsertParam(_, _, _, _)
InsertParam(h, g, ps, i) ==
  IF ps = <<>> THEN <<i>>
  ELSE IF NameRank(Params(h, g)[i].name) < NameRank(Params(h, g)[ps[1]].name)
       THEN <<i>> \o ps
       ELSE <<ps[1]>> \o InsertParam(h, g, Tail(ps), i)

RECURSIVE SortParams(_, _, _)
SortParams(h, g, n) ==
  IF n = 0 THEN <<>> ELSE InsertParam(h, g, SortParams(h, g, n - 1), n)

\* the items "group::tunable" of one group, for the positions ps
GroupItems(h, g, ps) ==
  [k \in 1..Len(ps) |-> <<GroupName(h, g), Params(h, g)[ps[k]].name, h[g].values[ps[k]]>>]

RECURSIVE ReprItems(_, _)
ReprItems(h, gs) ==
  IF gs = <<>> THEN <<>>
  ELSE GroupItems(h, gs[1], SortParams(h, gs[1], Len(Params(h, gs[1]))))
         \o ReprItems(h, Tail(gs))

\* the groups of _tunable_groups.values(), in insertion order
GroupSeq(tg) == [i \in 1..Len(tg.groups) |-> tg.groups[i][2]]

\* a representation that lists the groups in insertion order
repr_unsorted(tg, h) == ReprItems(h, GroupSeq(tg))

\* TunableGroups.__repr__: the items joined by ", "
repr(tg, h) == ReprItems(h, SortGroups(h, GroupSeq(tg)))

\* repr(self): reads only
Repr(v) ==
  /\ v \in Alive
  /\ call' = Call("repr", Ok)
  /\ UNCHANGED <<heap, views, opt>>

\* the outcome of a call that returns a bool
Returns(b) == [type |-> IF b THEN "True" ELSE "False", group |-> "", tunable |-> ""]

\* self == other: reads only
Eq(v, o) ==
  /\ v \in Alive /\ o \in Alive
  /\ call' = Call("eq", Returns(TGEq(TG(v), TG(o), heap)))
  /\ UNCHANGED <<heap, views>>
  /\ UNCHANGED opt

\* every operation, on at most MaxViews objects built from compatible configs
\* item access with the semantics of dict.get: no failure for a name that
\* is not indexed
get_item_default(tg, h, name) ==
  IF ~HasKey(tg.index, name)
  THEN [res |-> Ok, value |-> 0]
  ELSE [res |-> Ok, value |-> getitem(tg, h, name)]

\* TunableGroups.__getitem__: the outcome and the value
get_item(tg, h, name) ==
  IF ~HasKey(tg.index, name)
  THEN [res |-> Err("KeyError", "", name), value |-> 0]
  ELSE [res |-> Ok, value |-> getitem(tg, h, name)]

\* TunableGroups.get_tunable: the outcome, the tunable and its group
get_tunable(tg, h, name) ==
  IF ~HasKey(tg.index, name)
  THEN [res |-> Err("KeyError", "", name), tunable |-> <<>>, group |-> 0]
  ELSE [res |-> Ok,
        tunable |-> <<Params(h, Get(tg.index, name))[ParamPos(h, Get(tg.index, name), name)]>>,
        group |-> Get(tg.index, name)]

\* self[name]: reads only
GetItem(v, name) ==
  /\ v \in Alive
  /\ call' = Call("getitem", get_item(TG(v), heap, name).res)
  /\ UNCHANGED <<heap, views, opt>>

\* self.get_tunable(name): reads only
GetTunable(v, name) ==
  /\ v \in Alive
  /\ call' = Call("get_tunable", get_tunable(TG(v), heap, name).res)
  /\ UNCHANGED <<heap, views, opt>>

\* name in self: reads only
Contains(v, name) ==
  /\ v \in Alive
  /\ call' = Call("contains", Returns(contains(TG(v), name)))
  /\ UNCHANGED <<heap, views, opt>>

\* the members of the Status enumeration (environment/status.py)
Status ==
  {"UNKNOWN", "PENDING", "READY", "RUNNING", "SUCCEEDED", "CANCELED", "FAILED",
   "TIMED_OUT"}

\* goodness as the docstring words it: not failed or canceled
is_good_docstring(status) == status \notin {"CANCELED", "FAILED"}

\* Status.is_good
is_good(status) == status \notin {"CANCELED", "FAILED", "TIMED_OUT"}

\* status.is_succeeded
is_succeeded(status) == status = "SUCCEEDED"

\* Status.is_good(status): reads only
IsGood(status) ==
  /\ call' = Call("is_good", Returns(is_good(status)))
  /\ UNCHANGED <<heap, views, opt>>


Next ==
  \/ \E cfg \in CompatibleConfigs : Construct(cfg, MaxViews)
  \/ \E v, o \in ViewIds : Merge(v, o)
  \/ \E v \in ViewIds, names \in ShortNames : Subgroup(v, names, MaxViews)
  \/ \E v \in ViewIds : Copy(v, MaxViews)
  \/ \E v \in ViewIds, name \in TunableNames, value \in Values : SetItem(v, name, value)
  \/ \E v \in ViewIds, arg \in NameArgs : RestoreDefaults(v, arg)
  \/ \E v \in ViewIds, arg \in NameArgs : Reset(v, arg)
  \/ \E v \in ViewIds, kv \in ParamValues : Assign(v, kv)
  \/ \E v \in ViewIds, arg \in NameArgs : GetParamValues(v, arg)
  \/ \E v, o \in ViewIds : Eq(v, o)

Spec == Init /\ [][Next]_vars

\* construction, views and assignments, with mappings of several entries
NextAssign ==
  \/ \E cfg \in CompatibleConfigs : Construct(cfg, MaxViews)
  \/ \E v \in ViewIds, names \in ShortNames : Subgroup(v, names, MaxViews)
  \/ \E v \in ViewIds, name \in TunableNames, value \in Values : SetItem(v, name, value)
  \/ \E v \in ViewIds : Reset(v, None)
  \/ \E v \in ViewIds, kv \in Mappings : Assign(v, kv)
  \/ \E v \in ViewIds, name \in TunableNames : GetItem(v, name)
  \/ \E v \in ViewIds, name \in TunableNames : GetTunable(v, name)
  \/ \E v \in ViewIds, name \in TunableNames : Contains(v, name)

SpecAssign == Init /\ [][NextAssign]_vars

\* the operations that build and compose TunableGroups objects, on at most
\* MaxStructViews objects
NextStruct ==
  \/ \E cfg \in Configs : Construct(cfg, MaxStructViews)
  \/ \E v, o \in ViewIds : Merge(v, o)
  \/ \E v \in ViewIds, names \in LongNames : Subgroup(v, names, MaxStructViews)
  \/ \E v \in ViewIds : Copy(v, MaxStructViews)
  \/ \E v \in ViewIds : Repr(v)
  \/ \E status \in Status : IsGood(status)

SpecStruct == Init /\ [][NextStruct]_vars

--------------------------------------------------------------------------
(* The optimizer: MlosCoreOptimizer (mlos_core_optimizer.py) over a        *)
(* FlamlOptimizer (flaml_optimizer.py).  A configuration is a dictionary   *)
(* tunable name -> value with its keys in ascending order; the hash of a   *)
(* ConfigSpace.Configuration is taken to identify the configuration, so   *)
(* evaluated_configs is keyed by the configuration itself.  An observation *)
(* is a pair <<configuration, score>>.                                     *)

MaxObs == 2          \* observations registered with the backend
MaxRows == 2         \* rows of one bulk_register call
MaxSamples == 2      \* trials of one tune.run
MaxIter == 3         \* value of the iteration counter
MaxSuggests == 2     \* suggest calls of one optimizer
MaxOptViews == 2     \* TunableGroups objects alive at once (SpecOpt)

\* scores a caller reports
Scores == {1, 2}

\* the TunableGroups object the optimizer was constructed with
BaseView == 1

\* None, or a configuration
NoConfig == [some |-> FALSE, config |-> <<>>]

Some(c) == [some |-> TRUE, config |-> c]

\* how a call of the optimizer ended
Outcome(t) == [type |-> t, group |-> "", tunable |-> ""]

\* sorted(d.items()): insertion sort of the items by key
RECURSIVE InsertItem(_, _)
InsertItem(d, kv) ==
  IF d = <<>> THEN <<kv>>
  ELSE IF NameRank(kv[1]) < NameRank(d[1][1]) THEN <<kv>> \o d
       ELSE <<d[1]>> \o InsertItem(Tail(d), kv)

RECURSIVE SortItems(_)
SortItems(d) ==
  IF d = <<>> THEN <<>>
  ELSE InsertItem(SortItems(SubSeq(d, 1, Len(d) - 1)), d[Len(d)])

\* dict(sorted(tunables.get_param_values().items()))
ConfigOf(tg, h) == SortItems(get_param_values(tg, h, None).params)

\* the Tunable called name
TunableOf(tg, h, name) ==
  Params(h, Get(tg.index, name))[ParamPos(h, Get(tg.index, name), name)]

\* the configurations of the parameter space built from the tunables
ConfigSpaceOf(tg, h) ==
  LET names == ConfigOf(tg, h) IN
  {c \in [1..Len(names) -> TunableNames \X Values] :
     \A i \in 1..Len(names) :
        /\ c[i][1] = names[i][1]
        /\ InRange(TunableOf(tg, h, names[i][1]), c[i][2])}

\* parameter_space.get_default_configuration()
DefaultConfig(tg, h) ==
  LET names == ConfigOf(tg, h) IN
  [i \in 1..Len(names) |-> <<names[i][1], TunableOf(tg, h, names[i][1]).default>>]

\* MlosCoreOptimizer(tunables, ...): a new backend, first iteration
NewOpt(use_defaults, sign) ==
  [alive |-> TRUE, use_defaults |-> use_defaults, sign |-> sign, iter |-> 1,
   evaluated |-> <<>>, observations |-> <<>>, suggested |-> NoConfig,
   warned |-> FALSE, suggests |-> 0, fed |-> FALSE]

\* the loop of FlamlOptimizer._register over the rows, from position i on:
\* a row whose configuration is already evaluated warns, and replaces it
RECURSIVE RegisterLoop(_, _, _)
RegisterLoop(o, rows, i) ==
  IF i > Len(rows) THEN o
  ELSE RegisterLoop([o EXCEPT !.warned = @ \/ HasKey(o.evaluated, rows[i][1]),
                              !.evaluated = Assoc(@, rows[i][1], rows[i][2])],
                    rows, i + 1)

\* the loop of a _register that replaces an evaluated configuration silently
RECURSIVE RegisterLoopQuiet(_, _, _)
RegisterLoopQuiet(o, rows, i) ==
  IF i > Len(rows) THEN o
  ELSE RegisterLoopQuiet([o EXCEPT !.evaluated = Assoc(@, rows[i][1], rows[i][2])],
                         rows, i + 1)

_register_quiet(o, rows) == RegisterLoopQuiet(o, rows, 1)

\* FlamlOptimizer._register
_register(o, rows) == RegisterLoop(o, rows, 1)

\* BaseOptimizer.register: the rows are appended to the observations and
\* handed to _register
opt_register(o, rows) ==
  _register([o EXCEPT !.observations = @ \o rows], rows)

\* FlamlOptimizer._target_function: the score of an evaluated configuration,
\* or None after storing the configuration as the suggestion
_target_function(o, config) ==
  IF HasKey(o.evaluated, config)
  THEN [ret |-> Some(Get(o.evaluated, config)), opt |-> o]
  ELSE [ret |-> NoConfig, opt |-> [o EXCEPT !.suggested = Some(config)]]

\* tune.run: the trials samples[i..] are evaluated until one returns None
RECURSIVE tune_run(_, _, _)
tune_run(o, samples, i) ==
  IF i > Len(samples) THEN o
  ELSE LET r == _target_function(o, samples[i]) IN
       IF r.ret.some THEN tune_run(r.opt, samples, i + 1) ELSE r.opt

\* _get_next_config that keeps the suggestion of the previous call when the
\* run stores none
get_next_config_stale(o, samples) ==
  LET o2 == tune_run(o, samples, 1) IN
  IF ~o2.suggested.some
  THEN [res |-> Outcome("RuntimeError"), config |-> <<>>, opt |-> o2]
  ELSE [res |-> Ok, config |-> o2.suggested.config, opt |-> o2]

\* FlamlOptimizer._get_next_config, for the trials FLAML samples
_get_next_config(o, samples) ==
  LET o2 == tune_run([o EXCEPT !.suggested = NoConfig], samples, 1) IN
  IF ~o2.suggested.some
  THEN [res |-> Outcome("RuntimeError"), config |-> <<>>, opt |-> o2]
  ELSE [res |-> Ok, config |-> o2.suggested.config, opt |-> o2]

\* num_samples of tune.run
NumSamples(o) ==
  IF Len(o.evaluated) + 1 < MaxSamples THEN Len(o.evaluated) + 1 ELSE MaxSamples

\* the trials a tune.run may sample from the space
SampleSeqs(space, n) == UNION {[1..k -> space] : k \in 1..n}

\* BaseOptimizer.suggest(defaults): the default configuration, or _suggest
opt_suggest(o, defaults, default_config, samples) ==
  IF defaults
  THEN [res |-> Ok, config |-> default_config, opt |-> o]
  ELSE _get_next_config(o, samples)

\* the first row of the lowest score among rows[i..], best so far b
RECURSIVE Smallest(_, _, _)
Smallest(rows, b, i) ==
  IF i > Len(rows) THEN b
  ELSE Smallest(rows, IF rows[i][2] < rows[b][2] THEN i ELSE b, i + 1)

\* BaseOptimizer.get_best_observation: no row, or the row of the lowest score
opt_get_best_observation(o) ==
  IF o.observations = <<>> THEN <<>>
  ELSE <<o.observations[Smallest(o.observations, 1, 1)]>>

\* the statuses argument of bulk_register: None, or one status per row
NoStatus == [given |-> FALSE, seq |-> <<>>]

GivenStatus(seq) == [given |-> TRUE, seq |-> seq]

\* pd.DataFrame(configs)[tunables_names]: the columns of a row in the order
\* of the sorted tunable names
SelectColumns(config, names) ==
  [i \in 1..Len(names) |-> <<names[i][1], Get(config, names[i][1])>>]

\* the rows of bulk_register as the backend gets them, from position i on:
\* columns selected, scores multiplied by the sign, and with statuses given
\* only the rows of status SUCCEEDED
RECURSIVE BulkRows(_, _, _, _, _)
BulkRows(o, names, rows, status, i) ==
  IF i > Len(rows) THEN <<>>
  ELSE (IF status.given /\ status.seq[i] # "SUCCEEDED"
        THEN <<>>
        ELSE << <<SelectColumns(rows[i][1], names), rows[i][2] * o.sign>> >>)
       \o BulkRows(o, names, rows, status, i + 1)

\* bulk_register that registers every row, whatever its status
bulk_register_all(o, names, rows, status) ==
  IF rows = <<>> THEN [ret |-> FALSE, opt |-> o]
  ELSE [ret |-> TRUE, opt |-> opt_register(o, BulkRows(o, names, rows, NoStatus, 1))]

\* MlosCoreOptimizer.bulk_register; Optimizer.bulk_register tells whether
\* there is data
bulk_register(o, names, rows, status) ==
  IF rows = <<>> THEN [ret |-> FALSE, opt |-> o]
  ELSE [ret |-> TRUE, opt |-> opt_register(o, BulkRows(o, names, rows, status, 1))]

\* MlosCoreOptimizer.suggest, up to the configuration of the backend
suggest(o, default_config, samples) ==
  LET use_defaults == o.use_defaults /\ o.iter = 1
      r == opt_suggest(o, use_defaults, default_config, samples)
  IN  [res |-> r.res, config |-> r.config, opt |-> r.opt, defaults |-> use_defaults]

\* register that forwards every observation, whatever the status
register_any_status(o, config, status, score) ==
  [opt_register(o, << <<config, score * o.sign>> >>) EXCEPT !.iter = @ + 1]

\* register that forwards the caller's score as it is
register_unsigned(o, config, status, score) ==
  [(IF is_succeeded(status) THEN opt_register(o, << <<config, score>> >>) ELSE o)
     EXCEPT !.iter = @ + 1]

\* MlosCoreOptimizer.register; Optimizer.register returns the score
\* multiplied by the sign
register(o, config, status, score) ==
  [(IF is_succeeded(status)
    THEN opt_register(o, << <<config, score * o.sign>> >>)
    ELSE o)
     EXCEPT !.iter = @ + 1]

\* get_best_observation that reports the default configuration when there is
\* no observation
get_best_observation_default(o, default_config) ==
  LET df == opt_get_best_observation(o) IN
  IF Len(df) = 0
  THEN [some |-> TRUE, score |-> 0, config |-> default_config]
  ELSE [some |-> TRUE, score |-> df[1][2] * o.sign, config |-> df[1][1]]

\* get_best_observation that reports the backend's score as it is
get_best_observation_raw(o, default_config) ==
  LET df == opt_get_best_observation(o) IN
  IF Len(df) = 0
  THEN [some |-> FALSE, score |-> 0, config |-> <<>>]
  ELSE [some |-> TRUE, score |-> df[1][2], config |-> df[1][1]]

\* MlosCoreOptimizer.get_best_observation, up to the configuration: (None,
\* None), or the score and the configuration of the best row
get_best_observation(o, default_config) ==
  LET df == opt_get_best_observation(o) IN
  IF Len(df) = 0
  THEN [some |-> FALSE, score |-> 0, config |-> <<>>]
  ELSE [some |-> TRUE, score |-> df[1][2] * o.sign, config |-> df[1][1]]

\* the arena after copy.deepcopy of the group objects of tg
CopyHeap(h, tg, memo) ==
  [g \in ObjIds |->
     IF \E a \in Reach(tg) : memo[a] = g
     THEN h[CHOOSE a \in Reach(tg) : memo[a] = g]
     ELSE h[g]]

\* self._tunables.copy().assign(config): the outcome, the arena and the
\* dictionaries of the new object
CopyAssign(tg, h, config) ==
  LET memo == Memo(Reach(tg), FreeObjs(h))
      c == deepcopy(tg, memo)
      r == assign(c, CopyHeap(h, tg, memo), config)
  IN  [res |-> r.res, heap |-> r.heap, tg |-> c]

\* there is room for one more copy of the base tunables
Room ==
  /\ FreeViews(MaxOptViews) # {}
  /\ Cardinality(FreeObjs(heap)) >= Cardinality(Reach(TG(BaseView)))

\* the caller keeps the TunableGroups a call returned
Keep(tg, h, config, op, res) ==
  \E r \in {CopyAssign(tg, h, config)} :
     IF r.res = Ok
     THEN /\ heap' = r.heap
          /\ views' = [views EXCEPT ![Min(FreeViews(MaxOptViews))] = MkView(r.tg)]
          /\ call' = Call(op, res)
     ELSE /\ UNCHANGED <<heap, views>>
          /\ call' = Call(op, r.res)

\* optimizer.suggest(); keep tells whether the caller keeps the result
Suggest(keep, samples) ==
  /\ opt.alive
  /\ opt.suggests < MaxSuggests
  /\ keep => Room
  /\ \E r \in {suggest(opt, DefaultConfig(TG(BaseView), heap), samples)} :
       /\ opt' = [r.opt EXCEPT !.suggests = @ + 1, !.warned = FALSE]
       /\ IF r.res = Ok /\ keep
          THEN Keep(TG(BaseView), heap, r.config, "suggest",
                    Outcome(IF r.defaults THEN "defaults" ELSE "backend"))
          ELSE /\ UNCHANGED <<heap, views>>
               /\ call' = Call("suggest",
                               IF r.res # Ok THEN r.res
                               ELSE Outcome(IF r.defaults THEN "defaults" ELSE "backend"))

\* optimizer.register(tunables, status, score) for the TunableGroups v
Register(v, status, score) ==
  /\ opt.alive
  /\ v \in Alive
  /\ opt.iter < MaxIter
  /\ is_succeeded(status) => Len(opt.observations) < MaxObs
  /\ \E o \in {register(opt, ConfigOf(TG(v), heap), status, score)} :
       /\ opt' = [o EXCEPT !.warned = FALSE, !.fed = @ \/ status = "SUCCEEDED"]
       /\ call' = Call("register", IF o.warned THEN Outcome("warning") ELSE Ok)
  /\ UNCHANGED <<heap, views>>

\* optimizer.bulk_register(configs, scores, status)
BulkRegister(rows, status) ==
  /\ opt.alive
  /\ Len(opt.observations) + Len(rows) <= MaxObs
  /\ \E r \in {bulk_register(opt, ConfigOf(TG(BaseView), heap), rows, status)} :
       /\ opt' = [r.opt EXCEPT !.warned = FALSE,
                               !.fed = @ \/ \E i \in 1..Len(rows) :
                                   status.given => status.seq[i] = "SUCCEEDED"]
       /\ call' = Call("bulk_register",
                       IF r.opt.warned THEN Outcome("True, warning") ELSE Returns(r.ret))
  /\ UNCHANGED <<heap, views>>

\* optimizer.get_best_observation(); keep tells whether the caller keeps the
\* TunableGroups of the result
GetBestObservation(keep) ==
  /\ opt.alive
  /\ keep => Room
  /\ UNCHANGED opt
  /\ \E r \in {get_best_observation(opt, DefaultConfig(TG(BaseView), heap))} :
       IF r.some /\ keep
       THEN Keep(TG(BaseView), heap, r.config, "get_best_observation", Outcome("pair"))
       ELSE /\ UNCHANGED <<heap, views>>
            /\ call' = Call("get_best_observation",
                            Outcome(IF r.some THEN "pair" ELSE "None"))

\* the config the optimizer's tunables are built from
BaseConfigs == {<<1>>}

\* the rows and the statuses of a bulk_register call
RowSeqs(space) == UNION {[1..k -> space \X Scores] : k \in 0..MaxRows}

StatusArgs(n) == {NoStatus} \cup {GivenStatus(s) : s \in [1..n -> {"SUCCEEDED", "FAILED"}]}

\* an optimizer constructed on freshly built, reset tunables
InitOpt ==
  \E cfg \in BaseConfigs, use_defaults \in BOOLEAN, sign \in {1, -1} :
     LET gs == Alloc(ObjIds, Len(cfg))
         h0 == NewGroups([g \in ObjIds |-> NoObj], cfg, gs)
         tg == InitLoop(EmptyTG, gs, h0, 1).tg
     IN  /\ heap = reset(tg, h0, None).heap
         /\ views = [v \in ViewIds |-> IF v = BaseView THEN MkView(tg) ELSE NoView]
         /\ call = NoCall
         /\ opt = NewOpt(use_defaults, sign)

NextOpt ==
  \/ \E keep \in BOOLEAN,
        samples \in SampleSeqs(ConfigSpaceOf(TG(BaseView), heap), NumSamples(opt)) :
        Suggest(keep, samples)
  \/ \E v \in ViewIds, status \in Status, score \in Scores : Register(v, status, score)
  \/ \E rows \in RowSeqs(ConfigSpaceOf(TG(BaseView), heap)) :
        \E status \in StatusArgs(Len(rows)) : BulkRegister(rows, status)
  \/ \E keep \in BOOLEAN : GetBestObservation(keep)
  \/ \E v \in ViewIds \ {BaseView}, name \in TunableNames, value \in Values :
        SetItem(v, name, value)

SpecOpt == InitOpt /\ [][NextOpt]_vars


--------------------------------------------------------------------------
(* Properties.                                                            *)

Held(tg) == DictValues(tg.groups)

TGp(v) == [groups |-> views'[v].groups, index |-> views'[v].index]

\* index and group membership agree
Consistent(tg, h) ==
  /\ \A i \in 1..Len(tg.index) :
        /\ tg.index[i][2] \in Held(tg)
        /\ tg.index[i][1] \in GroupTunableNames(h, tg.index[i][2])
  /\ \A g \in Held(tg) : \A t \in GroupTunableNames(h, g) : HasKey(tg.index, t)
  /\ \A g1, g2 \in Held(tg) :
        g1 # g2 => GroupTunableNames(h, g1) \cap GroupTunableNames(h, g2) = {}
  /\ \A i, j \in 1..Len(tg.index) : tg.index[i][1] = tg.index[j][1] => i = j
  /\ \A i, j \in 1..Len(tg.groups) : tg.groups[i][2] = tg.groups[j][2] => i = j
  /\ Len(tg.index) = Cardinality(UNION {GroupTunableNames(h, g) : g \in Held(tg)})

\* C1: a successful construction, merge or subgroup leaves every TunableGroups
\* object whose index agreed with its groups (the new object included, which
\* starts empty) with an index that agrees with its groups: every index entry
\* names a held group that has the tunable, every tunable of a held group is
\* indexed, no tunable belongs to two held groups, and len() is the number of
\* tunables of the held groups.
C1_IndexConsistent ==
  [][(call'.op \in {"init", "merge", "subgroup"} /\ call'.type = "ok")
       => \A v \in ViewIds :
             Consistent(TG(v), heap) => Consistent(TGp(v), heap')]_vars

C1_Witness ==
  /\ call = Call("merge", Ok)
  /\ \E v \in Alive : Len(views[v].groups) >= 2 /\ Len(views[v].index) >= 2
                       /\ Consistent(TG(v), heap)

\* C2 (as claimed): when a merge stops with the duplicate-tunable error of
\* _add_group, the rejected group is not held by the receiver and none of its
\* tunables is indexed under it.
C2_AddGroupAtomic ==
  [][\A v, o \in Alive :
       (call'.op = "merge" /\ Merge(v, o)) =>
         LET r == merge(TG(v), TG(o), heap) IN
         (r.res.type = "ValueError" /\ r.res.tunable # "")
           => /\ ~HasKey(views'[v].groups, r.res.group)
              /\ \A i \in 1..Len(views'[v].index) :
                    GroupName(heap', views'[v].index[i][2]) # r.res.group]_vars

\* a group config of cfg repeats a tunable name of an earlier one
ConfigCollides(cfg) ==
  \E i, j \in 1..Len(cfg) :
     /\ i < j
     /\ \E p \in 1..Len(GroupConfigs[cfg[i]].params),
           q \in 1..Len(GroupConfigs[cfg[j]].params) :
           GroupConfigs[cfg[i]].params[p].name = GroupConfigs[cfg[j]].params[q].name

\* a group of o with a name new to v has a tunable that v already indexes
MergeCollides(v, o) ==
  \E i \in 1..Len(views[o].groups) :
     /\ ~HasKey(views[v].groups, views[o].groups[i][1])
     /\ \E t \in GroupTunableNames(heap, views[o].groups[i][2]) :
           HasKey(views[v].index, t)

\* names selects two different groups of v that share a tunable name
SubgroupCollides(v, names) ==
  \E i, j \in 1..Len(names) :
     /\ i < j
     /\ HasKey(views[v].groups, names[i]) /\ HasKey(views[v].groups, names[j])
     /\ Get(views[v].groups, names[i]) # Get(views[v].groups, names[j])
     /\ GroupTunableNames(heap, Get(views[v].groups, names[i]))
          \cap GroupTunableNames(heap, Get(views[v].groups, names[j])) # {}

\* the index entries of v are still there, at the same place, with the same group
IndexKept(v) ==
  /\ Len(views'[v].index) >= Len(views[v].index)
  /\ \A i \in 1..Len(views[v].index) : views'[v].index[i] = views[v].index[i]

\* C3: inserting a group with a tunable name that is already indexed under
\* another group fails, by construction, by merge and by subgroup alike, and
\* the index entries that were there are not replaced.
C3_DuplicateTunableFails ==
  [][/\ call'.op = "init" =>
          \A cfg \in Configs :
             (ConfigCollides(cfg) /\ Construct(cfg, MaxStructViews))
               => (call'.type = "ValueError" /\ views' = views)
     /\ call'.op = "merge" =>
          \A v, o \in Alive :
             (MergeCollides(v, o) /\ Merge(v, o))
               => (call'.type = "ValueError" /\ IndexKept(v))
     /\ call'.op = "subgroup" =>
          \A v \in Alive : \A names \in LongNames :
             (SubgroupCollides(v, names) /\ Subgroup(v, names, MaxStructViews))
               => (call'.type # "ok" /\ views' = views)]_vars

C3_Witness ==
  /\ call = Call("merge", Err("ValueError", "", ""))
  /\ \E v \in Alive : \E g \in Held(TG(v)) : \E t \in GroupTunableNames(heap, g) :
        HasKey(views[v].index, t) /\ Get(views[v].index, t) # g

\* the group names held by both v and o
SharedNames(v, o) == Keys(views[v].groups) \cap Keys(views[o].groups)

\* every same-named pair of groups of v and o agrees on names, domains, defaults
MergeCompatible(v, o) ==
  \A n \in SharedNames(v, o) :
     equals_defaults(heap, Get(views[v].groups, n), Get(views[o].groups, n))

\* two groups of o with names new to v share a tunable name
NewGroupsCollide(v, o) ==
  \E i, j \in 1..Len(views[o].groups) :
     /\ i < j
     /\ ~HasKey(views[v].groups, views[o].groups[i][1])
     /\ ~HasKey(views[v].groups, views[o].groups[j][1])
     /\ GroupTunableNames(heap, views[o].groups[i][2])
          \cap GroupTunableNames(heap, views[o].groups[j][2]) # {}

\* v and o hold different objects under name n, with the same names, domains
\* and defaults, and different current values or dirty flags
OverlapDiffers(v, o, n) ==
  /\ n \in SharedNames(v, o)
  /\ Get(views[v].groups, n) # Get(views[o].groups, n)
  /\ equals_defaults(heap, Get(views[v].groups, n), Get(views[o].groups, n))
  /\ \/ heap[Get(views[v].groups, n)].values # heap[Get(views[o].groups, n)].values
     \/ heap[Get(views[v].groups, n)].is_updated
          # heap[Get(views[o].groups, n)].is_updated

\* C4: when receiver and other hold same-named groups with identical names,
\* domains and defaults but different current values or dirty flags, merge
\* leaves the receiver holding its own group, with every value read through
\* the receiver and its dirty flag as before, leaves other's group as it was,
\* and succeeds unless another group of other is incompatible or collides.
C4_MergeKeepsReceiverValues ==
  [][call'.op = "merge" =>
       \A r, o \in Alive : \A n \in GroupNames :
          (OverlapDiffers(r, o, n) /\ Merge(r, o)) =>
            LET g == Get(views[r].groups, n)
                go == Get(views[o].groups, n)
            IN /\ (MergeCompatible(r, o) /\ ~MergeCollides(r, o)
                     /\ ~NewGroupsCollide(r, o)) => call'.type = "ok"
               /\ Get(views'[r].groups, n) = g
               /\ Get(views'[o].groups, n) = go
               /\ heap'[g] = heap[g]
               /\ heap'[go] = heap[go]
               /\ \A t \in Keys(views[r].index) :
                     getitem(TGp(r), heap', t) = getitem(TG(r), heap, t)
               /\ is_updated(TGp(r), heap', Given(<<n>>))
                     = is_updated(TG(r), heap, Given(<<n>>))]_vars

C4_Witness ==
  /\ call = Call("merge", Ok)
  /\ \E r, o \in Alive : \E n \in GroupNames :
        /\ OverlapDiffers(r, o, n)
        /\ heap[Get(views[r].groups, n)].values # heap[Get(views[o].groups, n)].values
        /\ Len(views[r].groups) >= 2

\* C5: merge fails with an error whenever a same-named pair of groups of
\* receiver and other differs in tunable names, domains or defaults.
C5_IncompatibleMergeFails ==
  [][call'.op = "merge" =>
       \A r, o \in Alive :
          (~MergeCompatible(r, o) /\ Merge(r, o)) => call'.type = "ValueError"]_vars

C5_Witness ==
  /\ call = Call("merge", Err("ValueError", "", ""))
  /\ \E r, o \in Alive : ~MergeCompatible(r, o) /\ ~MergeCollides(r, o)

\* C6: merge is idempotent: wherever receiver.merge(other) succeeds, merging
\* other again succeeds and leaves the receiver's group map and index as the
\* first merge left them (merge assigns no value and no dirty flag).
C6_MergeIdempotent ==
  \A r, o \in Alive :
     LET m1 == merge(TG(r), TG(o), heap) IN
     m1.res = Ok =>
       merge(m1.tg, IF o = r THEN m1.tg ELSE TG(o), heap) = [res |-> Ok, tg |-> m1.tg]

C6_Witness ==
  /\ call = Call("merge", Ok)
  /\ \E r, o \in Alive :
        /\ r # o
        /\ Held(TG(r)) \cap Held(TG(o)) # {}
        /\ Held(TG(r)) \ Held(TG(o)) # {}
        /\ merge(TG(r), TG(o), heap) = [res |-> Ok, tg |-> TG(r)]

\* the values of tunable t its declared range admits
ValidValues(h, g, t) == {val \in Values : InRange(Params(h, g)[ParamPos(h, g, t)], val)}

\* in the state after the step: a value assigned to t through a is read back
\* through b
WriteThenRead(a, b, t, val) ==
  LET w == setitem(TGp(a), heap', t, val) IN
  /\ w.res = Ok
  /\ contains(TGp(b), t)
  /\ getitem(TGp(b), w.heap, t) = val

\* C7 (as claimed): after a successful receiver.merge(other), for every group
\* of other whose name was new to the receiver, a value assigned to any of its
\* tunables through other is read back through the receiver, and a value
\* assigned through the receiver is read back through other.
C7_MergeSharesNewGroups ==
  [][(call'.op = "merge" /\ call'.type = "ok") =>
       \A r, o \in Alive :
          Merge(r, o) =>
            \A i \in 1..Len(views[o].groups) :
               ~HasKey(views[r].groups, views[o].groups[i][1]) =>
                 \A t \in GroupTunableNames(heap, views[o].groups[i][2]) :
                    \A val \in ValidValues(heap, views[o].groups[i][2], t) :
                       WriteThenRead(o, r, t, val) /\ WriteThenRead(r, o, t, val)]_vars

\* C8 (as claimed): after s = t.subgroup(names), for every tunable of the
\* selected groups, a value assigned through s is read back through t and a
\* value assigned through t is read back through s.
C8_SubgroupAliases ==
  [][(call'.op = "subgroup" /\ call'.type = "ok") =>
       \A v \in Alive : \A names \in LongNames :
          Subgroup(v, names, MaxStructViews) =>
            \A i \in 1..Len(names) :
               \A t \in GroupTunableNames(heap, Get(views[v].groups, names[i])) :
                  \A val \in ValidValues(heap, Get(views[v].groups, names[i]), t) :
                     /\ WriteThenRead(Min(FreeViews(MaxStructViews)), v, t, val)
                     /\ WriteThenRead(v, Min(FreeViews(MaxStructViews)), t, val)]_vars

\* some name of names is not a group name of v
HasUnknownName(v, names) == \E i \in 1..Len(names) : ~HasKey(views[v].groups, names[i])

FirstUnknown(v, names) ==
  CHOOSE i \in 1..Len(names) :
     /\ ~HasKey(views[v].groups, names[i])
     /\ \A j \in 1..(i - 1) : HasKey(views[v].groups, names[j])

\* the names before the first unknown one are pairwise different and select
\* groups with pairwise disjoint tunable names
CleanPrefix(v, names) ==
  \A i, j \in 1..(FirstUnknown(v, names) - 1) :
     i < j =>
       /\ names[i] # names[j]
       /\ GroupTunableNames(heap, Get(views[v].groups, names[i]))
            \cap GroupTunableNames(heap, Get(views[v].groups, names[j])) = {}

\* C9 (as claimed): subgroup(names) with a name that is not a group name of
\* the source fails with KeyError and leaves the source unchanged.
C9_UnknownNameKeyError ==
  [][call'.op = "subgroup" =>
       \A v \in Alive : \A names \in LongNames :
          (HasUnknownName(v, names) /\ Subgroup(v, names, MaxStructViews))
            => (call'.type = "KeyError" /\ views' = views /\ heap' = heap)]_vars

\* C9 (amended): subgroup(names) with a name that is not a group name of the
\* source always fails and leaves every TunableGroups object and every group
\* unchanged; the error is KeyError when the names before the first unknown
\* one are pairwise different and select groups with disjoint tunable names
\* (otherwise the AssertionError or ValueError of the earlier insertion).
C9_UnknownNameFails ==
  [][call'.op = "subgroup" =>
       \A v \in Alive : \A names \in LongNames :
          (HasUnknownName(v, names) /\ Subgroup(v, names, MaxStructViews))
            => /\ call'.type # "ok"
               /\ views' = views /\ heap' = heap
               /\ CleanPrefix(v, names) <=> call'.type = "KeyError"]_vars

C9_Witness ==
  /\ call = Call("subgroup", Err("KeyError", "", ""))
  /\ \E v \in Alive : Len(views[v].groups) >= 1 /\ Keys(views[v].groups) # GroupNames

\* the heaps a call of assign, item assignment, restore_defaults or reset on
\* tg can produce from heap h
Mutations(tg, h) ==
  {setitem(tg, h, name, value).heap : name \in TunableNames, value \in Values}
    \cup {restore_defaults(tg, h, arg).heap : arg \in NameArgs}
    \cup {reset(tg, h, arg).heap : arg \in NameArgs}
    \cup {assign(tg, h, kv).heap : kv \in ParamValues}

\* every assign, item assignment, restore_defaults and reset through one
\* TunableGroups leaves the group objects of every TunableGroups that shares
\* no group with it as they are
Detached ==
  \A a, b \in Alive :
     Reach(TG(a)) \cap Reach(TG(b)) = {} =>
       \A h \in Mutations(TG(a), heap) : \A g \in Reach(TG(b)) : h[g] = heap[g]

\* C10: copy() returns an object equal (==) to the source that shares no group
\* object with it and leaves the source as it was; and every assign, item
\* assignment, restore_defaults and reset through one TunableGroups leaves the
\* values and dirty flags of every TunableGroups that shares no group with it
\* (a copy and its source in particular) unchanged.
C10_CopyIsDetached ==
  /\ [][call'.op = "copy" =>
          \A v \in Alive :
             Copy(v, MaxViews) =>
               /\ TGEq(TGp(Min(FreeViews(MaxViews))), TGp(v), heap')
               /\ Reach(TGp(Min(FreeViews(MaxViews)))) \cap Reach(TGp(v)) = {}
               /\ TGp(v) = TG(v)
               /\ \A g \in Reach(TG(v)) : heap'[g] = heap[g]]_vars
  /\ []Detached

C10_Witness ==
  /\ call.op = "copy"
  /\ views[1].alive /\ views[2].alive
  /\ Len(views[1].groups) >= 1
  /\ TGEq(TG(1), TG(2), heap)
  /\ Reach(TG(1)) \cap Reach(TG(2)) = {}
  /\ \E g \in Reach(TG(1)) : ~group_is_defaults(heap, g)

\* the group_names argument that names exactly the group of name n
Only(n) == Given(<<n>>)

\* C11: after a successful item assignment tunables[name] = value, is_updated()
\* and is_updated([owning group]) are true; after a subsequent reset() with no
\* arguments, is_updated() is false, and so is is_updated([n]) for every group
\* name n of the TunableGroups.
C11_SetItemMarksResetClears ==
  \A v \in Alive : \A name \in TunableNames, value \in Values :
     LET w == setitem(TG(v), heap, name, value)
         r == reset(TG(v), w.heap, None)
     IN  w.res = Ok =>
           /\ is_updated(TG(v), w.heap, None)
           /\ is_updated(TG(v), w.heap, Only(GroupName(heap, Get(TG(v).index, name))))
           /\ r.res = Ok
           /\ ~is_updated(TG(v), r.heap, None)
           /\ \A n \in Keys(TG(v).groups) : ~is_updated(TG(v), r.heap, Only(n))

\* a reset() has just cleared a TunableGroups whose values had been assigned
C11_Witness ==
  /\ call = Call("reset", Ok)
  /\ \E v \in Alive :
        /\ Len(views[v].groups) >= 1
        /\ ~is_defaults(TG(v), heap)
        /\ ~is_updated(TG(v), heap, None)

\* C12: assigning to a tunable the value it already has, on a group whose
\* dirty flag is clear, succeeds, leaves the values as they are and sets the
\* group's dirty flag.
C12_AssignmentDrivesFlag ==
  \A v \in Alive : \A name \in Keys(TG(v).index) :
     LET g == Get(TG(v).index, name)
         w == setitem(TG(v), heap, name, getitem(TG(v), heap, name))
     IN  ~heap[g].is_updated =>
           /\ w.res = Ok
           /\ w.heap[g].is_updated
           /\ w.heap[g].values = heap[g].values

\* an item assignment has just succeeded and left a dirty group whose values
\* are all at their defaults next to a clean group
C12_Witness ==
  /\ call = Call("setitem", Ok)
  /\ \E v \in Alive : \E g1, g2 \in Held(TG(v)) :
        /\ heap[g1].is_updated /\ group_is_defaults(heap, g1)
        /\ ~heap[g2].is_updated

\* the groups of tg that the loop over `group_names or all` names
Selected(tg, arg) ==
  {Get(tg.groups, OrAll(tg, arg)[i]) :
     i \in {j \in 1..Len(OrAll(tg, arg)) : HasKey(tg.groups, OrAll(tg, arg)[j])}}

\* C13: a group's dirty flag is cleared only by an explicit reset: a step that
\* takes a group's is_updated from true to false is a reset call on a
\* TunableGroups whose loop over the group names reaches that group; no item
\* assignment, assign, restore_defaults, get_param_values, merge, subgroup,
\* copy or construction clears it.
C13_OnlyResetClears ==
  [][\A g \in ObjIds :
        (heap[g].is_updated /\ ~heap'[g].is_updated) =>
           /\ call'.op = "reset"
           /\ \E v \in Alive : \E arg \in NameArgs :
                 Reset(v, arg) /\ g \in Selected(TG(v), arg)]_vars

\* a restore_defaults call has just returned on a TunableGroups that holds a
\* clean group and a group that is still dirty
C13_Witness ==
  /\ call = Call("restore_defaults", Ok)
  /\ \E v \in Alive : \E g1, g2 \in Held(TG(v)) :
        heap[g1].is_updated /\ ~heap[g2].is_updated

\* C14: in every reachable state, assign({}) on any TunableGroups succeeds and
\* is_defaults() is true immediately afterwards.
C14_AssignEmptyRestores ==
  \A v \in Alive :
     LET r == assign(TG(v), heap, <<>>)
     IN  r.res = Ok /\ is_defaults(TG(v), r.heap)

\* an assign has just returned on a TunableGroups that is at its defaults
\* while an equally named copy of it is not
C14_Witness ==
  /\ call = Call("assign", Ok)
  /\ \E v, o \in Alive :
        /\ Len(views[v].groups) >= 1
        /\ Keys(views[v].groups) = Keys(views[o].groups)
        /\ Reach(TG(v)) \cap Reach(TG(o)) = {}
        /\ is_defaults(TG(v), heap)
        /\ ~is_defaults(TG(o), heap)

\* the collections of group names of tg, of length up to MaxNames
ExistingNames(tg) ==
  {names \in LongNames : \A i \in 1..Len(names) : HasKey(tg.groups, names[i])}

\* the group objects of tg that names names
Named(tg, names) == {Get(tg.groups, names[i]) : i \in 1..Len(names)}

\* C15 (as claimed): for every collection of existing group names, the empty
\* one included, restore_defaults(group_names) sets every tunable of exactly
\* the named groups to its default and leaves the values of all other groups
\* unchanged; with group_names omitted it restores all groups.
C15_RestoreExactlyNamed ==
  \A v \in Alive :
     /\ \A names \in ExistingNames(TG(v)) :
           LET r == restore_defaults(TG(v), heap, Given(names))
           IN  /\ r.res = Ok
               /\ \A g \in Named(TG(v), names) : group_is_defaults(r.heap, g)
               /\ \A g \in ObjIds \ Named(TG(v), names) : r.heap[g].values = heap[g].values
     /\ LET r == restore_defaults(TG(v), heap, None)
        IN  r.res = Ok /\ is_defaults(TG(v), r.heap)

\* C16 (as claimed): for every collection of existing group names, the empty
\* one included, is_updated(group_names) is true iff at least one of the named
\* groups is dirty (false for the empty collection); with group_names omitted
\* it is true iff any group of the TunableGroups is dirty.
C16_IsUpdatedIffNamedDirty ==
  \A v \in Alive :
     /\ \A names \in ExistingNames(TG(v)) :
           is_updated(TG(v), heap, Given(names))
             <=> \E g \in Named(TG(v), names) : heap[g].is_updated
     /\ is_updated(TG(v), heap, None) <=> \E g \in Held(TG(v)) : heap[g].is_updated

\* C17 (as claimed): for every collection of existing group names, the empty
\* one included, reset(group_names) clears the dirty flag of exactly the named
\* groups: the values of all tunables and the dirty flags of the groups that
\* are not named are unchanged.
C17_ResetExactlyNamed ==
  \A v \in Alive : \A names \in ExistingNames(TG(v)) :
     LET r == reset(TG(v), heap, Given(names))
     IN  /\ r.res = Ok
         /\ \A g \in Named(TG(v), names) : ~r.heap[g].is_updated
         /\ \A g \in ObjIds : r.heap[g].values = heap[g].values
         /\ \A g \in ObjIds \ Named(TG(v), names) : r.heap[g].is_updated = heap[g].is_updated

\* C18 (as claimed): get_param_values(group_names) returns a mapping whose
\* keys are exactly the tunable names of the selected groups (all groups when
\* group_names is omitted, none when it is empty) and whose value for each
\* name equals tunables[name].
C18_ParamValuesMatchItems ==
  \A v \in Alive :
     \A arg \in {None} \cup {Given(names) : names \in ExistingNames(TG(v))} :
        LET r == get_param_values(TG(v), heap, arg)
            sel == IF arg.given THEN Named(TG(v), arg.names) ELSE Held(TG(v))
        IN  /\ r.res = Ok
            /\ Keys(r.params) = UNION {GroupTunableNames(heap, g) : g \in sel}
            /\ \A name \in Keys(r.params) :
                  /\ contains(TG(v), name)
                  /\ Get(r.params, name) = getitem(TG(v), heap, name)

\* the groups that v and o hold under name n have the same tunables, domains
\* and defaults
SameDefinition(v, o, n) ==
  Params(heap, Get(views[v].groups, n)) = Params(heap, Get(views[o].groups, n))

SameValues(v, o, n) ==
  heap[Get(views[v].groups, n)].values = heap[Get(views[o].groups, n)].values

SameFlag(v, o, n) ==
  heap[Get(views[v].groups, n)].is_updated = heap[Get(views[o].groups, n)].is_updated

C20_ValuesStayInDomain ==
  /\ \A g \in ObjIds \ FreeObjs(heap) : \A i \in 1..Len(Params(heap, g)) :
        InRange(Params(heap, g)[i], heap[g].values[i])
  /\ \A v \in Alive : \A name \in Keys(TG(v).index) :
        \A value \in Values \ ValidValues(heap, Get(TG(v).index, name), name) :
           LET w == setitem(TG(v), heap, name, value)
           IN  w.res.type # "ok" /\ w.heap = heap

\* an item assignment has just been rejected on a TunableGroups that holds a
\* tunable
C20_Witness ==
  /\ call = Call("setitem", Err("ValueError", "", ""))
  /\ \E v \in Alive : Len(views[v].index) >= 1

\* item i of the representation comes before item j in the order of the
\* claim: decreasing cost, then ascending group name, then ascending tunable
ItemBefore(a, b) ==
  LET ca == (CHOOSE d \in ConfigIds : GroupConfigs[d].name = a[1]) 
      cb == (CHOOSE d \in ConfigIds : GroupConfigs[d].name = b[1])
  IN  \/ GroupConfigs[ca].cost > GroupConfigs[cb].cost
      \/ /\ GroupConfigs[ca].cost = GroupConfigs[cb].cost
         /\ NameRank(a[1]) < NameRank(b[1])
      \/ a[1] = b[1] /\ NameRank(a[2]) < NameRank(b[2])

\* C29: the representation of a TunableGroups lists every tunable of every
\* held group once, groups in order of decreasing cost with ties broken by
\* ascending group name and tunables in ascending order within a group; two
\* TunableGroups that hold the same groups produce the same representation,
\* whatever the insertion orders.
C29_ReprIsCanonical ==
  \A v \in Alive :
     LET r == repr(TG(v), heap)
     IN  /\ \A i, j \in 1..Len(r) : i < j => ItemBefore(r[i], r[j])
         /\ {<<r[i][1], r[i][2]>> : i \in 1..Len(r)}
              = UNION {{<<GroupName(heap, g), t>> : t \in GroupTunableNames(heap, g)} :
                         g \in Held(TG(v))}
         /\ \A o \in Alive : Held(TG(o)) = Held(TG(v)) => repr(TG(o), heap) = r

\* repr has just been called while two TunableGroups hold the same groups of
\* different costs, inserted in different orders
C29_Witness ==
  /\ call = Call("repr", Ok)
  /\ \E v, o \in Alive :
        /\ Held(TG(v)) = Held(TG(o))
        /\ views[v].groups # views[o].groups
        /\ \E g1, g2 \in Held(TG(v)) : GroupDef(heap, g1).cost # GroupDef(heap, g2).cost

--------------------------------------------------------------------------
(* The optimizer.                                                          *)

\* the default configuration of the optimizer's tunables
Defaults == DefaultConfig(TG(BaseView), heap)

\* the tunable names of the optimizer's tunables, sorted
Names == ConfigOf(TG(BaseView), heap)

\* the configurations of the optimizer's parameter space
Space == ConfigSpaceOf(TG(BaseView), heap)

C22_OnlyFirstSuggestDefaults ==
  [][(opt.alive /\ opt'.suggests # opt.suggests /\ call'.type = "defaults")
       => (opt.use_defaults /\ opt.suggests = 0)]_vars

\* C23: register forwards the observation to the backend exactly when the
\* status is SUCCEEDED: for any other status the backend's observations, its
\* evaluated configurations and the result of get_best_observation are as
\* before; in both cases the iteration counter advances by exactly one.
C23_RegisterForwardsIffSucceeded ==
  opt.alive =>
    \A v \in Alive, status \in Status, score \in Scores :
       \A o \in {register(opt, ConfigOf(TG(v), heap), status, score)} :
       /\ o.iter = opt.iter + 1
       /\ status # "SUCCEEDED" =>
             /\ o.observations = opt.observations
             /\ o.evaluated = opt.evaluated
             /\ get_best_observation(o, Defaults) = get_best_observation(opt, Defaults)
       /\ status = "SUCCEEDED" =>
             /\ Len(o.observations) = Len(opt.observations) + 1
             /\ o.observations[Len(o.observations)][1] = ConfigOf(TG(v), heap)
             /\ HasKey(o.evaluated, ConfigOf(TG(v), heap))

\* register was called with a status other than SUCCEEDED only: the counter
\* has advanced and the backend has no observation
C23_Witness ==
  /\ opt.alive
  /\ call = Call("register", Ok)
  /\ opt.iter > 1
  /\ opt.observations = <<>>

\* caller score s1 is better than s2 in the optimizer's direction
Better(o, s1, s2) == IF o.sign = 1 THEN s1 < s2 ELSE s1 > s2

\* C24: the score of every observation that register or bulk_register hands
\* to the backend is the caller's score multiplied by the sign of the
\* direction, once; so of two caller scores the better one is the smaller
\* score at the backend.
C24_SignAppliedOnce ==
  opt.alive =>
    /\ \A v \in Alive, score \in Scores :
          LET o == register(opt, ConfigOf(TG(v), heap), "SUCCEEDED", score) IN
          o.observations[Len(o.observations)][2] = score * opt.sign
    /\ \A rows \in RowSeqs(Space) :
          \A o \in {bulk_register(opt, Names, rows, NoStatus).opt} :
          \A i \in 1..Len(rows) :
             o.observations[Len(opt.observations) + i][2] = rows[i][2] * opt.sign
    /\ \A s1, s2 \in Scores : Better(opt, s1, s2) => s1 * opt.sign < s2 * opt.sign
    /\ \A i \in 1..Len(opt.observations) :
          \E score \in Scores : opt.observations[i][2] = score * opt.sign

\* a maximizing optimizer has registered two observations, the better caller
\* score being the smaller backend score
C24_Witness ==
  /\ opt.alive /\ opt.sign = -1
  /\ call.op = "register"
  /\ Len(opt.observations) = 2
  /\ opt.observations[1][2] < opt.observations[2][2]

\* row i of a bulk_register call is to reach the backend
Selected25(status, i) == status.given => status.seq[i] = "SUCCEEDED"

\* the index of the k-th row that is to reach the backend
KthSelected(rows, status, k) ==
  CHOOSE i \in 1..Len(rows) :
     /\ Selected25(status, i)
     /\ Cardinality({j \in 1..i : Selected25(status, j)}) = k

\* C25: bulk_register hands the backend exactly the rows of status SUCCEEDED
\* when statuses are given, and every row when they are not, in the order of
\* the rows; a row of any other status is not among the observations and is
\* not the best observation unless it was registered otherwise.
C25_BulkFiltersSucceeded ==
  opt.alive =>
    \A rows \in RowSeqs(Space) : \A status \in StatusArgs(Len(rows)) :
       \A o \in {bulk_register(opt, Names, rows, status).opt} :
       \A n \in {Cardinality({i \in 1..Len(rows) : Selected25(status, i)})},
          best \in {get_best_observation(o, Defaults)} :
           /\ Len(o.observations) = Len(opt.observations) + n
           /\ SubSeq(o.observations, 1, Len(opt.observations)) = opt.observations
           /\ \A k \in 1..n :
                 \A i \in {KthSelected(rows, status, k)} :
                    o.observations[Len(opt.observations) + k]
                      = <<rows[i][1], rows[i][2] * opt.sign>>
           /\ best.some =>
                 \E k \in 1..Len(o.observations) :
                    o.observations[k] = <<best.config, best.score * opt.sign>>

\* bulk_register has returned True for rows none of which was SUCCEEDED: the
\* backend has no observation
C25_Witness ==
  /\ opt.alive
  /\ call = Call("bulk_register", Returns(TRUE))
  /\ ~opt.fed
  /\ opt.observations = <<>>

\* C26: registering a configuration that is already evaluated, through
\* register or through bulk_register, with the same or another score, warns
\* and completes: bulk_register returns True, the observation is recorded and
\* the configuration stays evaluated once, with the score registered last, so
\* that the optimizer is in a state from which suggest and register go on.
C26_DuplicateWarns ==
  opt.alive =>
    /\ \A v \in Alive, score \in Scores :
          HasKey(opt.evaluated, ConfigOf(TG(v), heap)) =>
            \A o \in {register(opt, ConfigOf(TG(v), heap), "SUCCEEDED", score)} :
            /\ o.warned
            /\ Len(o.observations) = Len(opt.observations) + 1
            /\ Len(o.evaluated) = Len(opt.evaluated)
            /\ Get(o.evaluated, ConfigOf(TG(v), heap)) = score * opt.sign
    /\ \A rows \in RowSeqs(Space) :
          (\E i \in 1..Len(rows) :
              \/ HasKey(opt.evaluated, rows[i][1])
              \/ \E j \in 1..Len(rows) : j < i /\ rows[j][1] = rows[i][1]) =>
            \A r \in {bulk_register(opt, Names, rows, NoStatus)} :
            /\ r.ret
            /\ r.opt.warned
            /\ Len(r.opt.observations) = Len(opt.observations) + Len(rows)
            /\ \A i, j \in 1..Len(r.opt.evaluated) :
                  r.opt.evaluated[i][1] = r.opt.evaluated[j][1] => i = j
            /\ \A i \in 1..Len(rows) :
                  Get(r.opt.evaluated, rows[i][1]) \in {rows[j][2] * opt.sign : j \in i..Len(rows)}

\* bulk_register has warned about a duplicate and has returned True
C26_Witness ==
  /\ opt.alive
  /\ call = Call("bulk_register", Outcome("True, warning"))
  /\ Len(opt.evaluated) < Len(opt.observations)

\* C27: get_best_observation returns (None, None) as long as no observation
\* was registered as succeeded (by register with status SUCCEEDED, or by
\* bulk_register with a row that is SUCCEEDED or has no status), whatever
\* suggest calls and register calls of other statuses were made, and a
\* (score, tunables) pair from then on.
C27_BestIsNoneUntilSucceeded ==
  opt.alive =>
    /\ get_best_observation(opt, Defaults).some <=> opt.fed
    /\ call.op = "get_best_observation" => (call.type = "None" <=> ~opt.fed)

\* get_best_observation has returned (None, None) after a suggest call and a
\* register call of a status other than SUCCEEDED
C27_Witness ==
  /\ opt.alive
  /\ call = Call("get_best_observation", Outcome("None"))
  /\ opt.suggests > 0
  /\ opt.iter > 1

\* C28: _get_next_config returns a configuration of the run that is not
\* among the evaluated configurations, or raises RuntimeError when every
\* sampled configuration is evaluated; it returns neither an evaluated
\* configuration nor the suggestion of an earlier call.
C28_SuggestionIsUnseen ==
  opt.alive =>
    \A samples \in SampleSeqs(Space, NumSamples(opt)) :
       \A r \in {_get_next_config(opt, samples)} :
       IF \E i \in 1..Len(samples) : ~HasKey(opt.evaluated, samples[i])
       THEN /\ r.res = Ok
            /\ ~HasKey(opt.evaluated, r.config)
            /\ \E i \in 1..Len(samples) : samples[i] = r.config
       ELSE r.res.type = "RuntimeError"

\* suggest has failed with RuntimeError while an earlier suggestion was
\* registered
C28_Witness ==
  /\ opt.alive
  /\ call = Call("suggest", Outcome("RuntimeError"))
  /\ opt.evaluated # <<>>
  /\ opt.suggests = 2

C31_BestScoreInCallerSign ==
  (opt.alive /\ opt.observations = <<>>) =>
    \A v \in Alive, score \in Scores :
       \A o \in {register(opt, ConfigOf(TG(v), heap), "SUCCEEDED", score)} :
       \A b \in {get_best_observation(o, Defaults)} :
          /\ b.some
          /\ b.score = score
          /\ b.config = ConfigOf(TG(v), heap)
          /\ Room =>
                \A r \in {CopyAssign(TG(BaseView), heap, b.config)} :
                   /\ r.res = Ok
                   /\ ConfigOf(r.tg, r.heap) = ConfigOf(TG(v), heap)

\* a maximizing optimizer has returned the best observation after its only
\* register call, for tunables that are not at their defaults
C31_Witness ==
  /\ opt.alive /\ opt.sign = -1
  /\ call = Call("get_best_observation", Outcome("pair"))
  /\ Len(opt.observations) = 1 /\ opt.iter = 2
  /\ opt.observations[1][1] # Defaults
  /\ \E v \in Alive \ {BaseView} : ConfigOf(TG(v), heap) = opt.observations[1][1]

\* every key of the mapping is indexed and every value is in its domain
ValidMapping(tg, h, kv) ==
  \A i \in 1..Len(kv) :
     /\ HasKey(tg.index, kv[i][1])
     /\ InRange(TunableOf(tg, h, kv[i][1]), kv[i][2])

\* the mapping names the tunable at position p of group g of tg
NamedIn(tg, h, kv, g, p) ==
  \E i \in 1..Len(kv) :
     kv[i][1] = Params(h, g)[p].name /\ Get(tg.index, kv[i][1]) = g

\* C32: assign with a non-empty mapping of indexed names and values of their
\* domains succeeds, makes tunables[k] equal to v for every pair (k, v), leaves
\* the owning group of every named tunable dirty, and changes neither the
\* value of a tunable the mapping does not name nor the dirty flag of a group
\* none of whose tunables is named.
C32_AssignSetsOnlyNamed ==
  \A v \in Alive : \A kv \in Mappings :
     (kv # <<>> /\ ValidMapping(TG(v), heap, kv)) =>
       \A r \in {assign(TG(v), heap, kv)} :
          /\ r.res = Ok
          /\ \A i \in 1..Len(kv) :
                /\ getitem(TG(v), r.heap, kv[i][1]) = kv[i][2]
                /\ r.heap[Get(TG(v).index, kv[i][1])].is_updated
          /\ \A g \in ObjIds \ FreeObjs(heap) :
                /\ \A p \in 1..Len(Params(heap, g)) :
                      ~NamedIn(TG(v), heap, kv, g, p)
                        => r.heap[g].values[p] = heap[g].values[p]
                /\ (\A p \in 1..Len(Params(heap, g)) : ~NamedIn(TG(v), heap, kv, g, p))
                      => r.heap[g].is_updated = heap[g].is_updated

\* an assign has just succeeded on a TunableGroups of two groups, none of its
\* tunables is at its default and one of its groups is clean
C32_Witness ==
  /\ call = Call("assign", Ok)
  /\ \E v \in Alive :
        /\ Len(views[v].groups) = 2
        /\ \A g \in Held(TG(v)) :
              \A p \in 1..Len(Params(heap, g)) :
                 heap[g].values[p] # Params(heap, g)[p].default
        /\ \E g \in Held(TG(v)) : ~heap[g].is_updated

\* C33: for a name that is not in the index, reading the item, assigning the
\* item and get_tunable fail with KeyError, the failed assignment changes no
\* value and no dirty flag, and the membership test returns False.
C33_UnknownTunableKeyError ==
  \A v \in Alive : \A name \in TunableNames \ Keys(TG(v).index) :
     /\ get_item(TG(v), heap, name).res.type = "KeyError"
     /\ get_tunable(TG(v), heap, name).res.type = "KeyError"
     /\ \A value \in Values :
           \A r \in {setitem(TG(v), heap, name, value)} :
              r.res.type = "KeyError" /\ r.heap = heap
     /\ ~contains(TG(v), name)

\* reading an item has just failed with KeyError while a TunableGroups
\* indexes some tunable names and not others
C33_Witness ==
  /\ call = Call("getitem", Err("KeyError", "", ""))
  /\ \E v \in Alive : Len(views[v].index) >= 1 /\ Keys(TG(v).index) # TunableNames

\* the position in other's group map of the group at which merge stopped
Offending(other, res) == CHOOSE j \in 1..Len(other.groups) : other.groups[j][1] = res.group

\* C34: when receiver.merge(other) fails, every group of other that comes
\* before the offending group in other's group map and whose name was new to
\* the receiver is held by the receiver afterwards, and all its tunables are
\* indexed under it.
C34_FailedMergeKeepsPrefix ==
  \A v, o \in Alive :
     \A r \in {merge(TG(v), TG(o), heap)} :
        r.res # Ok =>
          \A i \in 1..(Offending(TG(o), r.res) - 1) :
             ~HasKey(views[v].groups, views[o].groups[i][1]) =>
               /\ HasKey(r.tg.groups, views[o].groups[i][1])
               /\ Get(r.tg.groups, views[o].groups[i][1]) = views[o].groups[i][2]
               /\ \A t \in GroupTunableNames(heap, views[o].groups[i][2]) :
                     /\ HasKey(r.tg.index, t)
                     /\ Get(r.tg.index, t) = views[o].groups[i][2]

\* a merge has just failed on an incompatible group of other, and the
\* receiver holds a group of other that precedes it
C34_Witness ==
  /\ call = Call("merge", Err("ValueError", "", ""))
  /\ \E v, o \in Alive : \E i, j \in 1..Len(views[o].groups) :
        /\ v # o /\ i < j
        /\ HasKey(views[v].groups, views[o].groups[i][1])
        /\ Get(views[v].groups, views[o].groups[i][1]) = views[o].groups[i][2]
        /\ views[v].groups[Len(views[v].groups)][2] = views[o].groups[i][2]
        /\ HasKey(views[v].groups, views[o].groups[j][1])
        /\ ~equals_defaults(heap, Get(views[v].groups, views[o].groups[j][1]),
                            views[o].groups[j][2])

\* item i of the mapping can be assigned: its key is indexed and its value is
\* in the domain
ValidItem(tg, h, kv, i) ==
  /\ HasKey(tg.index, kv[i][1])
  /\ InRange(TunableOf(tg, h, kv[i][1]), kv[i][2])

\* the first item of the mapping that cannot be assigned
FirstInvalid(tg, h, kv) ==
  CHOOSE j \in 1..Len(kv) :
     ~ValidItem(tg, h, kv, j) /\ \A i \in 1..(j - 1) : ValidItem(tg, h, kv, i)

\* C35: when an item of a non-empty mapping cannot be assigned (unknown name,
\* or value outside the domain), assign fails with the error of that item,
\* the items before it are in effect (value set, owning group dirty) and the
\* tunables of the items from it on keep their values.
C35_AssignNoRollback ==
  \A v \in Alive : \A kv \in Mappings :
     (kv # <<>> /\ ~ValidMapping(TG(v), heap, kv)) =>
       \A r \in {assign(TG(v), heap, kv)}, j \in {FirstInvalid(TG(v), heap, kv)} :
          /\ r.res.type = (IF HasKey(TG(v).index, kv[j][1]) THEN "ValueError" ELSE "KeyError")
          /\ \A i \in 1..(j - 1) :
                /\ getitem(TG(v), r.heap, kv[i][1]) = kv[i][2]
                /\ r.heap[Get(TG(v).index, kv[i][1])].is_updated
          /\ \A i \in j..Len(kv) :
                HasKey(TG(v).index, kv[i][1]) =>
                  getitem(TG(v), r.heap, kv[i][1]) = getitem(TG(v), heap, kv[i][1])

\* an assign has just failed on the only TunableGroups, which has two
\* tunables: one is off its default in a dirty group, the other is at its
\* default
C35_Witness ==
  /\ call.op = "assign" /\ call.type \in {"ValueError", "KeyError"}
  /\ Cardinality(Alive) = 1
  /\ \E v \in Alive :
        /\ Len(views[v].index) = 2
        /\ \E g \in Held(TG(v)) :
              /\ heap[g].is_updated
              /\ \E p \in 1..Len(Params(heap, g)) :
                    heap[g].values[p] # Params(heap, g)[p].default
        /\ getitem(TG(v), heap, "x") = 1
        /\ getitem(TG(v), heap, "y") = TunableOf(TG(v), heap, "y").default

\* C36: after a successful receiver.merge(other), for every group name that
\* both hold with different group objects, the receiver still holds its own
\* object; an assignment through other to a tunable of other's group leaves
\* the receiver's group as it is, and an assignment through the receiver
\* leaves other's group as it is.
C36_MergeDoesNotAlias ==
  \A v, o \in Alive :
     \A r \in {merge(TG(v), TG(o), heap)} :
        r.res = Ok =>
          \A n \in Keys(views[v].groups) \cap Keys(views[o].groups) :
             \A gv \in {Get(views[v].groups, n)}, go \in {Get(views[o].groups, n)} :
                gv # go =>
                  /\ Get(r.tg.groups, n) = gv
                  /\ \A t \in GroupTunableNames(heap, gv) : \A value \in Values :
                        /\ (HasKey(views[o].index, t) /\ Get(views[o].index, t) = go)
                              => setitem(TG(o), heap, t, value).heap[gv] = heap[gv]
                        /\ (HasKey(r.tg.index, t) /\ Get(r.tg.index, t) = gv)
                              => setitem(r.tg, heap, t, value).heap[go] = heap[go]

\* a merge has just succeeded and the two TunableGroups hold equally named
\* groups that are different objects with different values
C36_Witness ==
  /\ call = Call("merge", Ok)
  /\ \E v, o \in Alive : \E n \in Keys(views[v].groups) \cap Keys(views[o].groups) :
        /\ Get(views[v].groups, n) # Get(views[o].groups, n)
        /\ heap[Get(views[v].groups, n)].values # heap[Get(views[o].groups, n)].values

\* the group_names arguments looked at for a TunableGroups: one name, or all
\* its group names
SomeNames(tg) == {<<n>> : n \in GroupNames} \cup {get_covariant_group_names(tg)}

\* C37: for c = t.subgroup(names).copy(): c shares no group object with t, the
\* index and the group map of c agree, an item assignment through c changes no
\* group of t and is reflected in c.get_param_values() and c.is_updated(), and
\* an item assignment through t changes no group of c.
C37_CopyOfSubgroupDetached ==
  \A v \in Alive : \A names \in SomeNames(TG(v)) :
     \A s \in {subgroup(TG(v), names, heap)} :
        (s.res = Ok /\ Cardinality(FreeObjs(heap)) >= Cardinality(Reach(s.tg))) =>
          \A memo \in {Memo(Reach(s.tg), FreeObjs(heap))} :
          \A c \in {deepcopy(s.tg, memo)}, h1 \in {CopyHeap(heap, s.tg, memo)} :
             /\ Reach(c) \cap Reach(TG(v)) = {}
             /\ Consistent(c, h1)
             /\ Keys(c.groups) = Keys(s.tg.groups)
             /\ \A t \in Keys(c.index) : \A value \in Values :
                   InRange(TunableOf(c, h1, t), value) =>
                     \A w \in {setitem(c, h1, t, value)} :
                        /\ w.res = Ok
                        /\ \A g \in Reach(TG(v)) : w.heap[g] = heap[g]
                        /\ Get(get_param_values(c, w.heap, None).params, t) = value
                        /\ is_updated(c, w.heap, None)
             /\ \A t \in Keys(TG(v).index) : \A value \in Values :
                   \A w \in {setitem(TG(v), h1, t, value)} :
                      \A g \in Reach(c) : w.heap[g] = h1[g]

\* a copy has just been made of a subgroup that holds some, not all, groups
\* of its source
C37_Witness ==
  /\ call = Call("copy", Ok)
  /\ \E t, s, c \in Alive :
        /\ Held(TG(s)) # {} /\ Held(TG(s)) \subseteq Held(TG(t))
        /\ Held(TG(s)) # Held(TG(t))
        /\ c # s /\ c # t
        /\ Keys(views[c].groups) = Keys(views[s].groups)
        /\ Reach(TG(c)) \cap Reach(TG(t)) = {}
        /\ TGEq(TG(c), TG(s), heap)

\* C38: for s = t.subgroup(names): an item assignment through s makes
\* t.is_updated() true; s.reset() clears the dirty flag of every group of s,
\* which t holds too, and leaves the flag of every group of t that s does not
\* hold as it is.
C38_DirtyFlagIsShared ==
  \A v \in Alive : \A names \in SomeNames(TG(v)) :
     \A s \in {subgroup(TG(v), names, heap)} :
        s.res = Ok =>
          /\ Held(s.tg) \subseteq Held(TG(v))
          /\ \A t \in Keys(s.tg.index) : \A value \in Values :
                InRange(TunableOf(s.tg, heap, t), value) =>
                  \A w \in {setitem(s.tg, heap, t, value)} :
                     w.res = Ok /\ is_updated(TG(v), w.heap, None)
          /\ \A r \in {reset(s.tg, heap, None)} :
                /\ r.res = Ok
                /\ \A g \in Held(s.tg) : ~r.heap[g].is_updated
                /\ \A g \in Held(TG(v)) \ Held(s.tg) :
                      r.heap[g].is_updated = heap[g].is_updated
                /\ Held(s.tg) = Held(TG(v)) => ~is_updated(TG(v), r.heap, None)

\* a reset has just returned; a TunableGroups holds a clean group, whose
\* values are not the defaults, of another TunableGroups that also holds a
\* dirty group
C38_Witness ==
  /\ call = Call("reset", Ok)
  /\ \E t, s \in Alive :
        /\ Held(TG(s)) # {} /\ Held(TG(s)) \subseteq Held(TG(t))
        /\ \A g \in Held(TG(s)) : ~heap[g].is_updated /\ ~group_is_defaults(heap, g)
        /\ \E g \in Held(TG(t)) \ Held(TG(s)) : heap[g].is_updated

==========================================================================
